---------------------------- MODULE Spec2Model ----------------------------
(***************************************************************************)
(* Model of the Solidity declaration and type-resolution engine            *)
(* (contractParser.ts, mappingParser.ts, parenthesisCounter.ts,            *)
(* parameterParser.ts, commentRemover.ts, patterns.ts).                    *)
(*                                                                         *)
(* A JavaScript string is a sequence of one-character strings.  Indices    *)
(* handed to and returned by the operators are 0-based, as in the source;  *)
(* -1 is "not found".                                                      *)
(***************************************************************************)
EXTENDS Integers, Sequences, FiniteSets, TLC

----------------------------------------------------------------------------
(* Bounds of the model. *)

\* number of declarations concatenated into one source text
MaxDecls == 2

\* call-stack budget of the JavaScript engine: a recursion deeper than this
\* ends in "RangeError: Maximum call stack size exceeded"
MaxCallDepth == 6

----------------------------------------------------------------------------
(* Character classes used by the regular expressions. *)

LowerSeq == <<"a","b","c","d","e","f","g","h","i","j","k","l","m",
              "n","o","p","q","r","s","t","u","v","w","x","y","z">>
UpperSeq == <<"A","B","C","D","E","F","G","H","I","J","K","L","M",
              "N","O","P","Q","R","S","T","U","V","W","X","Y","Z">>
Lower == {LowerSeq[i] : i \in 1..26}
Upper == {UpperSeq[i] : i \in 1..26}
Digit == {"0","1","2","3","4","5","6","7","8","9"}
\* \w
WordChars == Lower \cup Upper \cup Digit \cup {"_"}
\* \s
Space == {" ", "\n", "\t", "\r"}
\* [a-zA-Z_]
IdentStart == Lower \cup Upper \cup {"_"}
\* [a-zA-Z0-9_\[\]]
SimpleTypeChars == WordChars \cup {"[", "]"}
\* [a-zA-Z0-9_.\[\]]
DottedTypeChars == SimpleTypeChars \cup {"."}

\* String.prototype.toLowerCase on one character
ToLower(c) == IF c \in Upper THEN LowerSeq[CHOOSE i \in 1..26 : UpperSeq[i] = c] ELSE c
\* String.prototype.toUpperCase on one character
ToUpper(c) == IF c \in Lower THEN UpperSeq[CHOOSE i \in 1..26 : LowerSeq[i] = c] ELSE c

----------------------------------------------------------------------------
(* JavaScript string primitives. *)

Min2(a, b) == IF a < b THEN a ELSE b
Max2(a, b) == IF a > b THEN a ELSE b

\* str[i]; "" stands for undefined (index out of range)
CharAt(s, i) == IF i >= 0 /\ i < Len(s) THEN s[i + 1] ELSE ""

\* str.substring(a, b): arguments clamped to [0, length] and swapped if a > b
Substring(s, a, b) ==
    LET ca == Max2(0, Min2(a, Len(s)))
        cb == Max2(0, Min2(b, Len(s)))
    IN SubSeq(s, Min2(ca, cb) + 1, Max2(ca, cb))

\* str.substring(a)
SubstringFrom(s, a) == Substring(s, a, Len(s))

\* does p occur in s at index i (case-sensitive literal of a regex, startsWith)
MatchesAt(s, p, i) ==
    /\ i >= 0
    /\ i + Len(p) <= Len(s)
    /\ \A k \in 1..Len(p) : s[i + k] = p[k]

\* the same under the regex flag i
MatchesAtCI(s, p, i) ==
    /\ i >= 0
    /\ i + Len(p) <= Len(s)
    /\ \A k \in 1..Len(p) : ToLower(s[i + k]) = ToLower(p[k])

StartsWith(s, p) == MatchesAt(s, p, 0)

\* least index j in lo..hi with P(j), -1 if there is none
FirstIndex(lo, hi, P(_)) ==
    IF \E j \in lo..hi : P(j)
      THEN CHOOSE j \in lo..hi : P(j) /\ \A k \in lo..(j - 1) : ~P(k)
      ELSE -1

\* outcome of a regular expression that does not match
NoMatch == [found |-> FALSE]

\* regex.exec(s) with lastIndex p, s.match(regex) with p = 0: the leftmost
\* match at or after index p, where MatchAt(k) is the match tried at index k
Exec(s, p, MatchAt(_)) ==
    LET q == FirstIndex(p, Len(s) - 1, LAMBDA k : MatchAt(k).found)
    IN IF q = -1 THEN NoMatch ELSE MatchAt(q)

\* str.indexOf(p, i)
IndexOfFrom(s, p, i) == FirstIndex(i, Len(s) - Len(p), LAMBDA j : MatchesAt(s, p, j))

\* index of the first occurrence of p at or after i under the regex flag i
IndexOfFromCI(s, p, i) == FirstIndex(i, Len(s) - Len(p), LAMBDA j : MatchesAtCI(s, p, j))

Includes(s, p) == IndexOfFrom(s, p, 0) >= 0

\* index of the first character at or after i that is not in class C, the
\* length if there is none (where a greedy C* ends)
SkipIn(s, i, C) ==
    LET j == FirstIndex(i, Len(s) - 1, LAMBDA k : s[k + 1] \notin C)
    IN IF j = -1 THEN Max2(i, Len(s)) ELSE j

\* index of the first character at or after i that is in class C, the length
\* if there is none (where a greedy [^C]* ends)
SkipNotIn(s, i, C) ==
    LET j == FirstIndex(i, Len(s) - 1, LAMBDA k : s[k + 1] \in C)
    IN IF j = -1 THEN Max2(i, Len(s)) ELSE j

\* length of s[0..e) without its trailing whitespace
TrimEndIndex(s, e) ==
    IF \E j \in 1..e : s[j] \notin Space
      THEN CHOOSE j \in 1..e : s[j] \notin Space /\ \A k \in (j + 1)..e : s[k] \in Space
      ELSE 0

\* str.trim()
Trim(s) ==
    LET lo == SkipIn(s, 0, Space)
        hi == TrimEndIndex(s, Len(s))
    IN IF lo >= hi THEN <<>> ELSE SubSeq(s, lo + 1, hi)

RECURSIVE SplitFrom(_, _, _)
\* str.split(sep) for a one-character separator, from index i on
SplitFrom(s, sep, i) ==
    LET j == SkipNotIn(s, i, {sep})
    IN IF j >= Len(s) THEN <<Substring(s, i, Len(s))>>
       ELSE <<Substring(s, i, j)>> \o SplitFrom(s, sep, j + 1)

Split(s, sep) == SplitFrom(s, sep, 0)

\* (str.match(/c/g) || []).length for a one-character pattern
CountChar(s, c) == Cardinality({i \in 1..Len(s) : s[i] = c})

RECURSIVE FilterNonBlank(_, _)
\* parts.filter(m => m.trim()), over the first n parts
FilterNonBlank(parts, n) ==
    IF n = 0 THEN <<>>
    ELSE IF Trim(parts[n]) # <<>> THEN Append(FilterNonBlank(parts, n - 1), parts[n])
    ELSE FilterNonBlank(parts, n - 1)

----------------------------------------------------------------------------
(* parenthesisCounter.ts *)

RECURSIVE SkipStringLiteral(_, _, _)
\* the inner loop over a quoted region: i0 is just past the opening quote q;
\* the result is the index just past the closing quote, or the length.
\* Characters that are neither a backslash nor q only advance i.
SkipStringLiteral(str, i0, q) ==
    LET i == SkipNotIn(str, i0, {"\\", q})
    IN IF i >= Len(str) THEN i
       ELSE IF str[i + 1] = "\\" /\ i + 1 < Len(str) THEN SkipStringLiteral(str, i + 2, q)
       ELSE IF str[i + 1] = q THEN i + 1
       ELSE SkipStringLiteral(str, i + 1, q)

RECURSIVE ClosingParenLoop(_, _, _, _)
\* the while loop of findMatchingClosingParen; the characters that are neither
\* a parenthesis nor (with ignoreStrings) a quote only advance i, and are
\* passed over in one step
ClosingParenLoop(str, i0, depth, ignoreStrings) ==
    LET i == SkipNotIn(str, i0, IF ignoreStrings THEN {"(", ")", "'", "\""} ELSE {"(", ")"})
    IN IF i >= Len(str) THEN -1
       ELSE IF str[i + 1] \in {"'", "\""}
         THEN ClosingParenLoop(str, SkipStringLiteral(str, i + 1, str[i + 1]), depth, ignoreStrings)
       ELSE IF str[i + 1] = "(" THEN ClosingParenLoop(str, i + 1, depth + 1, ignoreStrings)
       ELSE IF depth - 1 = 0 THEN i
       ELSE ClosingParenLoop(str, i + 1, depth - 1, ignoreStrings)

\* findMatchingClosingParen that counts the parentheses in string literals too
findMatchingClosingParenCountAll(str, startIndex, ignoreStrings) ==
    ClosingParenLoop(str, startIndex, 0, FALSE)

findMatchingClosingParen(str, startIndex, ignoreStrings) ==
    ClosingParenLoop(str, startIndex, 0, ignoreStrings)

RECURSIVE FindAtDepthLoop(_, _, _, _, _)
\* the while loop of findAtDepth; a character that is neither a parenthesis
\* nor the first character of searchStr only advances i, and such characters
\* are passed over in one step
FindAtDepthLoop(str, i0, depth, searchStr, targetDepth) ==
    LET i == IF depth # targetDepth THEN SkipNotIn(str, i0, {"(", ")"})
             ELSE IF Len(searchStr) = 0 THEN i0
             ELSE SkipNotIn(str, i0, {"(", ")", searchStr[1]})
        char == str[i + 1]
        d == IF char = "(" THEN depth + 1
             ELSE IF char = ")" THEN depth - 1
             ELSE depth
    IN IF i >= Len(str) THEN -1
       ELSE IF char = ")" /\ d < 0 THEN -1
       ELSE IF d = targetDepth /\ Substring(str, i, i + Len(searchStr)) = searchStr THEN i
       ELSE FindAtDepthLoop(str, i + 1, d, searchStr, targetDepth)

\* findAtDepth that takes the first occurrence at whatever depth
findAtDepthAnyDepth(str, startIndex, searchStr, targetDepth) ==
    IndexOfFrom(str, searchStr, startIndex)

findAtDepth(str, startIndex, searchStr, targetDepth) ==
    FindAtDepthLoop(str, startIndex, 0, searchStr, targetDepth)

\* extractBalancedContent: Null when nothing balanced starts at startIndex
NoBalanced == [found |-> FALSE, content |-> <<>>, endIndex |-> -1]

RECURSIVE CustomDelimiterLoop(_, _, _, _, _, _)
CustomDelimiterLoop(str, startIndex, i, depth, openChar, closeChar) ==
    IF i >= Len(str) THEN NoBalanced
    ELSE IF str[i + 1] = openChar
      THEN CustomDelimiterLoop(str, startIndex, i + 1, depth + 1, openChar, closeChar)
    ELSE IF str[i + 1] = closeChar
      THEN IF depth - 1 = 0
             THEN [found |-> TRUE, content |-> Substring(str, startIndex + 1, i), endIndex |-> i]
             ELSE CustomDelimiterLoop(str, startIndex, i + 1, depth - 1, openChar, closeChar)
    ELSE CustomDelimiterLoop(str, startIndex, i + 1, depth, openChar, closeChar)

extractBalancedContent(str, startIndex, openChar, closeChar) ==
    IF CharAt(str, startIndex) # openChar THEN NoBalanced
    ELSE IF openChar # "(" \/ closeChar # ")"
      THEN CustomDelimiterLoop(str, startIndex, startIndex, 0, openChar, closeChar)
    ELSE LET closeIndex == findMatchingClosingParen(str, startIndex, TRUE)
         IN IF closeIndex = -1 THEN NoBalanced
            ELSE [found |-> TRUE, content |-> Substring(str, startIndex + 1, closeIndex),
                  endIndex |-> closeIndex]

----------------------------------------------------------------------------
(* mappingParser.ts *)

MAPPING_OPEN == <<"m","a","p","p","i","n","g","(">>
ARROW == <<"=",">">>

\* extractMappingType that leaves the remainder as it stands
extractMappingTypeUntrimmed(str) ==
    IF ~StartsWith(str, MAPPING_OPEN) THEN [found |-> FALSE, type |-> <<>>, remainder |-> <<>>]
    ELSE LET Closed(closeIndex) ==
                 IF closeIndex > 0
                   THEN [found |-> TRUE,
                         type |-> Substring(str, 0, closeIndex + 1),
                         remainder |-> SubstringFrom(str, closeIndex + 1)]
                   ELSE [found |-> FALSE, type |-> <<>>, remainder |-> <<>>]
         IN Closed(findMatchingClosingParen(str, 7, FALSE))

\* extractMappingType: found = FALSE is the null result
extractMappingType(str) ==
    IF ~StartsWith(str, MAPPING_OPEN) THEN [found |-> FALSE, type |-> <<>>, remainder |-> <<>>]
    ELSE LET Closed(closeIndex) ==
                 IF closeIndex > 0
                   THEN [found |-> TRUE,
                         type |-> Substring(str, 0, closeIndex + 1),
                         remainder |-> Trim(SubstringFrom(str, closeIndex + 1))]
                   ELSE [found |-> FALSE, type |-> <<>>, remainder |-> <<>>]
         IN Closed(findMatchingClosingParen(str, 7, FALSE))

extractMappingValueType(mappingType) ==
    IF ~StartsWith(mappingType, MAPPING_OPEN) THEN mappingType
    ELSE LET Value(arrowIndex, valueStart, closingParen) ==
                 IF arrowIndex > 0 /\ closingParen > valueStart
                   THEN Trim(Substring(mappingType, valueStart, closingParen))
                   ELSE mappingType
             From(arrowIndex) ==
                 Value(arrowIndex, arrowIndex + 2, findMatchingClosingParen(mappingType, 7, FALSE))
         IN From(findAtDepth(mappingType, 0, ARROW, 1))

\* extractMappingKeys without the recursion into the value type
extractMappingKeysOuterOnly(mappingType) ==
    IF ~StartsWith(mappingType, MAPPING_OPEN) THEN <<>>
    ELSE LET From(arrowIndex) ==
                 IF arrowIndex > 0 THEN <<Trim(Substring(mappingType, 8, arrowIndex))>> ELSE <<>>
         IN From(findAtDepth(mappingType, 0, ARROW, 1))

RECURSIVE extractMappingKeys(_)
extractMappingKeys(mappingType) ==
    IF ~StartsWith(mappingType, MAPPING_OPEN) THEN <<>>
    ELSE LET Keys(keyType, remaining) ==
                 IF StartsWith(remaining, MAPPING_OPEN)
                   THEN <<keyType>> \o extractMappingKeys(remaining)
                   ELSE <<keyType>>
             From(arrowIndex) ==
                 IF arrowIndex > 0
                   THEN Keys(Trim(Substring(mappingType, 8, arrowIndex)),
                             Trim(SubstringFrom(mappingType, arrowIndex + 2)))
                   ELSE <<>>
         IN From(findAtDepth(mappingType, 0, ARROW, 1))

isMappingType(type) == StartsWith(Trim(type), MAPPING_OPEN)

\* parseMappingStructure: found = FALSE is the null result, hangs = TRUE a
\* call that never returns
NoStructure == [found |-> FALSE, hangs |-> FALSE, keys |-> <<>>, valueType |-> <<>>, isArray |-> FALSE]
Hangs == [found |-> FALSE, hangs |-> TRUE, keys |-> <<>>, valueType |-> <<>>, isArray |-> FALSE]

RECURSIVE FinalValueLoop(_, _, _)
\* the while loop of parseMappingStructure and the return behind it.  A pass
\* in which extractMappingValueType hands currentType back unchanged leaves
\* the loop in the state it was in: the loop never ends.
FinalValueLoop(currentType, keys, isArray) ==
    LET Pass(valueType) ==
            IF valueType = currentType THEN Hangs
            ELSE FinalValueLoop(valueType, keys, isArray)
    IN IF isMappingType(currentType) THEN Pass(extractMappingValueType(currentType))
       ELSE [found |-> TRUE, hangs |-> FALSE, keys |-> keys, valueType |-> currentType,
             isArray |-> isArray]

\* parseMappingStructure behind the isMappingType test, given mappingType.trim()
ParseCleanType(cleanType, isArray) ==
    FinalValueLoop(cleanType, extractMappingKeys(cleanType), isArray)

\* endsWith('[]') is a match of '[]' two characters before the end
parseMappingStructure(mappingType) ==
    IF ~isMappingType(mappingType) THEN NoStructure
    ELSE IF MatchesAt(Trim(mappingType), <<"[", "]">>, Len(Trim(mappingType)) - 2)
      THEN ParseCleanType(Substring(Trim(mappingType), 0, Len(Trim(mappingType)) - 2), TRUE)
    ELSE ParseCleanType(Trim(mappingType), FALSE)

----------------------------------------------------------------------------
(* patterns.ts and parameterParser.ts *)

KW_memory == <<"m","e","m","o","r","y">>
KW_storage == <<"s","t","o","r","a","g","e">>
KW_calldata == <<"c","a","l","l","d","a","t","a">>
StorageWords == <<KW_memory, KW_storage, KW_calldata>>

\* length of the storage-location keyword that /(memory|storage|calldata)/i
\* matches at index i, 0 if none does
StorageWordAt(s, i) ==
    IF MatchesAtCI(s, KW_memory, i) THEN Len(KW_memory)
    ELSE IF MatchesAtCI(s, KW_storage, i) THEN Len(KW_storage)
    ELSE IF MatchesAtCI(s, KW_calldata, i) THEN Len(KW_calldata)
    ELSE 0

\* \b between index i-1 and index i
WordBoundary(s, i) == (CharAt(s, i - 1) \in WordChars) # (CharAt(s, i) \in WordChars)

\* does /\b(memory|storage|calldata)\b/i match at index i
StorageKeywordAt(s, i) ==
    LET n == StorageWordAt(s, i)
    IN n > 0 /\ WordBoundary(s, i) /\ WordBoundary(s, i + n)

RECURSIVE ReplaceStorageWords(_, _, _)
\* str.replace(/\b(memory|storage|calldata)\b/gi, rep), from index i on
ReplaceStorageWords(s, rep, i) ==
    LET From(j) ==
            IF j = -1 THEN SubstringFrom(s, i)
            ELSE Substring(s, i, j) \o rep \o ReplaceStorageWords(s, rep, j + StorageWordAt(s, j))
    IN From(FirstIndex(i, Len(s) - 1, LAMBDA k : StorageKeywordAt(s, k)))

RECURSIVE CollapseSpaces(_, _)
\* str.replace(/\s+/g, ' '), from index i on
CollapseSpaces(s, i) ==
    LET j == SkipNotIn(s, i, Space)
    IN IF j >= Len(s) THEN SubstringFrom(s, i)
       ELSE Substring(s, i, j) \o <<" ">> \o CollapseSpaces(s, SkipIn(s, j, Space))

\* does SOLIDITY_PATTERNS.STORAGE_LOCATION
\*   /\s+(memory|storage|calldata)\s*$/i
\* match at index i
StorageLocationAt(s, i) ==
    LET w == SkipIn(s, i, Space)
        n == StorageWordAt(s, w)
    IN w > i /\ n > 0 /\ SkipIn(s, w + n, Space) = Len(s)

\* index of the leftmost match of STORAGE_LOCATION, -1 if it does not match
StorageLocationStart(s) == FirstIndex(0, Len(s) - 1, LAMBDA k : StorageLocationAt(s, k))

\* s without what follows index p, s itself if p is -1
CutAt(s, p) == IF p >= 0 THEN Substring(s, 0, p) ELSE s

\* s.replace(STORAGE_LOCATION, ''): a match runs to the end of s
RemoveStorageLocation(s) == CutAt(s, StorageLocationStart(s))

\* type.replace(STORAGE_LOCATION, '').trim()
normalizeType(type) == Trim(RemoveStorageLocation(type))

\* SOLIDITY_PATTERNS.BUILTIN_TYPES: /^(uint|int|bytes|address|bool|string|mapping)/
BuiltinPrefixes == {<<"u","i","n","t">>, <<"i","n","t">>, <<"b","y","t","e","s">>, <<"a","d","d","r","e","s","s">>, <<"b","o","o","l">>, <<"s","t","r","i","n","g">>, <<"m","a","p","p","i","n","g">>}
MatchesBuiltinTypes(s) == \E p \in BuiltinPrefixes : StartsWith(s, p)

\* the test isCustomType applies to cleanType = normalizeType(type)
IsCustomCleanType(cleanType) ==
    \/ Includes(cleanType, <<".">>)
    \/ /\ Len(cleanType) > 0
       /\ cleanType[1] = ToUpper(cleanType[1])
       /\ ~MatchesBuiltinTypes(cleanType)

isCustomType(type) == IsCustomCleanType(normalizeType(type))

\* SOLIDITY_PATTERNS.TYPE_WITH_NAME: /^([a-zA-Z_][a-zA-Z0-9_.\[\]]*)(?:\s+(\w+))?$/
MatchTypeWithName(s) ==
    LET none == [found |-> FALSE, type |-> <<>>, name |-> <<>>]
        t == SkipIn(s, 0, DottedTypeChars)
        w == SkipIn(s, t, Space)
        e == SkipIn(s, w, WordChars)
    IN IF Len(s) = 0 \/ s[1] \notin IdentStart THEN none
       ELSE IF t = Len(s) THEN [found |-> TRUE, type |-> s, name |-> <<>>]
       ELSE IF w > t /\ e > w /\ e = Len(s)
         THEN [found |-> TRUE, type |-> Substring(s, 0, t), name |-> Substring(s, w, e)]
       ELSE none

\* SOLIDITY_PATTERNS.VAR_NAME /^(\w+)/ applied to remainder: group 1, '' if no match
VarName(remainder) == Substring(remainder, 0, SkipIn(remainder, 0, WordChars))

\* the two returns of parseParamOrReturn behind the mapping branch, given
\* match = withoutStorage.match(TYPE_WITH_NAME)
ParseTypeWithName(withoutStorage, match) ==
    IF match.found
      THEN [type |-> Trim(match.type), name |-> match.name]
      ELSE [type |-> withoutStorage, name |-> <<>>]

\* parseParamOrReturn behind the mapping branch
ParseWithoutStorage(withoutStorage) ==
    ParseTypeWithName(withoutStorage, MatchTypeWithName(withoutStorage))

\* parseParamOrReturn given mappingResult = extractMappingType(trimmed)
ParseTrimmed(trimmed, mappingResult) ==
    IF mappingResult.found
      THEN [type |-> mappingResult.type,
            name |-> VarName(Trim(ReplaceStorageWords(mappingResult.remainder, <<>>, 0)))]
      ELSE ParseWithoutStorage(Trim(CollapseSpaces(ReplaceStorageWords(trimmed, <<" ">>, 0), 0)))

\* parseParamOrReturn behind const trimmed = str.trim()
ParseParam(trimmed) == ParseTrimmed(trimmed, extractMappingType(trimmed))

parseParamOrReturn(str) == ParseParam(Trim(str))

RECURSIVE SplitByCommaLoop(_, _, _, _, _)
\* the for loop of splitByComma and the push after it.  Characters other than
\* a parenthesis or a comma are appended to current, a run of them at once.
SplitByCommaLoop(str, i0, current0, depth, result) ==
    LET i == SkipNotIn(str, i0, {"(", ")", ","})
        current == current0 \o Substring(str, i0, i)
        char == str[i + 1]
        pushed == IF Trim(current) # <<>> THEN Append(result, Trim(current)) ELSE result
    IN IF i >= Len(str) THEN pushed
       ELSE IF char = "(" THEN SplitByCommaLoop(str, i + 1, Append(current, char), depth + 1, result)
       ELSE IF char = ")" THEN SplitByCommaLoop(str, i + 1, Append(current, char), depth - 1, result)
       ELSE IF depth = 0 THEN SplitByCommaLoop(str, i + 1, <<>>, depth, pushed)
       ELSE SplitByCommaLoop(str, i + 1, Append(current, char), depth, result)

\* splitByComma as a plain str.split(',')
splitByCommaPlain(str) == Split(str, ",")

splitByComma(str) == SplitByCommaLoop(str, 0, <<>>, 0, <<>>)

----------------------------------------------------------------------------
(* commentRemover.ts *)

RECURSIVE CopyStringLiteralDropEscaped(_, _, _, _)
\* CopyStringLiteral that copies a backslash without the character behind it
CopyStringLiteralDropEscaped(source, i0, q, result0) ==
    LET i == SkipNotIn(source, i0, {"\\", q})
        result == result0 \o Substring(source, i0, i)
        strChar == source[i + 1]
    IN IF i >= Len(source) THEN [i |-> i, result |-> result]
       ELSE IF strChar = "\\" /\ i + 1 < Len(source)
         THEN CopyStringLiteralDropEscaped(source, i + 2, q, Append(result, strChar))
       ELSE IF strChar = q THEN [i |-> i + 1, result |-> Append(result, strChar)]
       ELSE CopyStringLiteralDropEscaped(source, i + 1, q, Append(result, strChar))

\* CopyStringLiteral that takes a backslash for an ordinary character
CopyStringLiteralNoEscapes(source, i0, q, result0) ==
    LET i == SkipNotIn(source, i0, {q})
    IN IF i >= Len(source) THEN [i |-> i, result |-> result0 \o Substring(source, i0, i)]
       ELSE [i |-> i + 1, result |-> result0 \o Substring(source, i0, i + 1)]

\* SkipBlockComment that keeps no newline
SkipBlockCommentDropNewlines(source, i, result) ==
    LET close == FirstIndex(i, Len(source) - 2,
                            LAMBDA k : source[k + 1] = "*" /\ source[k + 2] = "/")
    IN [i |-> IF close = -1 THEN Max2(i, Len(source) - 1) ELSE close + 2, result |-> result]

RECURSIVE CopyStringLiteral(_, _, _, _)
\* the inner loop over a string literal: i0 is just past the opening quote q;
\* yields the index at which the outer loop resumes and the text copied so
\* far.  Characters that are neither a backslash nor q are copied a run at once.
CopyStringLiteral(source, i0, q, result0) ==
    LET i == SkipNotIn(source, i0, {"\\", q})
        result == result0 \o Substring(source, i0, i)
        strChar == source[i + 1]
    IN IF i >= Len(source) THEN [i |-> i, result |-> result]
       ELSE IF strChar = "\\" /\ i + 1 < Len(source)
         THEN CopyStringLiteral(source, i + 2, q, result \o <<strChar, source[i + 2]>>)
       ELSE IF strChar = q THEN [i |-> i + 1, result |-> Append(result, strChar)]
       ELSE CopyStringLiteral(source, i + 1, q, Append(result, strChar))

\* the inner loop over a block comment: i is just past the opening slash-star.
\* The loop looks at the indices i .. length-2 only; it stops behind the first
\* star-slash among them and keeps the newlines it passed.
SkipBlockComment(source, i, result) ==
    LET close == FirstIndex(i, Len(source) - 2,
                            LAMBDA k : source[k + 1] = "*" /\ source[k + 2] = "/")
        stop == IF close = -1 THEN Max2(i, Len(source) - 1) ELSE close
        newlines == Cardinality({k \in i..(stop - 1) : source[k + 1] = "\n"})
    IN [i |-> IF close = -1 THEN stop ELSE close + 2,
        result |-> result \o [k \in 1..newlines |-> "\n"]]

RECURSIVE RemoveCommentsLoop(_, _, _)
\* the outer while loop of removeComments; a run of characters that are
\* neither a quote nor a slash takes the "regular character" branch once per
\* character, and is copied here in one step
RemoveCommentsLoop(source, i0, result0) ==
    LET i == SkipNotIn(source, i0, {"'", "\"", "/"})
        result == result0 \o Substring(source, i0, i)
        char == source[i + 1]
        nextChar == CharAt(source, i + 1)
    IN IF i >= Len(source) THEN result
       ELSE IF char \in {"'", "\""}
         THEN LET r == CopyStringLiteral(source, i + 1, char, Append(result, char))
              IN RemoveCommentsLoop(source, r.i, r.result)
       ELSE IF char = "/" /\ nextChar = "/"
         THEN LET j == SkipNotIn(source, i, {"\n"})
              IN IF j < Len(source)
                   THEN RemoveCommentsLoop(source, j + 1, Append(result, "\n"))
                   ELSE RemoveCommentsLoop(source, j, result)
       ELSE IF char = "/" /\ nextChar = "*"
         THEN LET r == SkipBlockComment(source, i + 2, result)
              IN RemoveCommentsLoop(source, r.i, r.result)
       ELSE RemoveCommentsLoop(source, i + 1, Append(result, char))

removeComments(source) == RemoveCommentsLoop(source, 0, <<>>)

----------------------------------------------------------------------------
(* contractParser.ts: parseStructDefinitions *)

\* enumPattern /enum\s+(\w+)\s*\{[^}]*\}/ tried at index p
EnumMatchAt(source, p) ==
    LET w == SkipIn(source, p + 4, Space)
        n == SkipIn(source, w, WordChars)
        b == SkipIn(source, n, Space)
        c == SkipNotIn(source, b + 1, {"}"})
    IN IF /\ MatchesAt(source, <<"e","n","u","m">>, p)
          /\ w > p + 4
          /\ n > w
          /\ CharAt(source, b) = "{"
          /\ c < Len(source)
         THEN [found |-> TRUE, name |-> Substring(source, w, n), end |-> c + 1]
         ELSE NoMatch

RECURSIVE EnumNames(_, _)
\* the exec loop over enumPattern from lastIndex p: the set of names added to
\* enumSet.  A match can only start at an occurrence of the literal "enum".
EnumNames(source, p) ==
    LET Matched(q, m) ==
            IF m.found THEN {m.name} \cup EnumNames(source, m.end)
            ELSE EnumNames(source, q + 1)
        From(q) == IF q = -1 THEN {} ELSE Matched(q, EnumMatchAt(source, q))
    IN From(IndexOfFrom(source, <<"e","n","u","m">>, p))

RECURSIVE StructBodyEnd(_, _)
\* [^{}]*(?:\{[^{}]*\}[^{}]*)* followed by \}: index of that closing brace, -1 if none
StructBodyEnd(source, i) ==
    LET j == SkipNotIn(source, i, {"{", "}"})
        k == SkipNotIn(source, j + 1, {"{", "}"})
    IN IF j >= Len(source) THEN -1
       ELSE IF source[j + 1] = "}" THEN j
       ELSE IF CharAt(source, k) = "}" THEN StructBodyEnd(source, k + 1)
       ELSE -1

\* structPattern /struct\s+(\w+)\s*\{([^{}]*(?:\{[^{}]*\}[^{}]*)*)\}/ tried at index p
StructMatchAt(source, p) ==
    LET w == SkipIn(source, p + 6, Space)
        n == SkipIn(source, w, WordChars)
        b == SkipIn(source, n, Space)
        c == StructBodyEnd(source, b + 1)
    IN IF /\ MatchesAt(source, <<"s","t","r","u","c","t">>, p)
          /\ w > p + 6
          /\ n > w
          /\ CharAt(source, b) = "{"
          /\ c >= 0
         THEN [found |-> TRUE, name |-> Substring(source, w, n),
               body |-> Substring(source, b + 1, c), end |-> c + 1]
         ELSE NoMatch

\* \s+(\w+)\s*$ tried at index a: the member name, if the tail matches
MemberTail(t, a) ==
    LET w == SkipIn(t, a, Space)
        e == SkipIn(t, w, WordChars)
    IN IF w > a /\ e > w /\ SkipIn(t, e, Space) = Len(t)
         THEN [found |-> TRUE, name |-> Substring(t, w, e)]
         ELSE NoMatch

\* the member pattern
\*   /(mapping\([^)]+\)(?:\[\])?|[a-zA-Z_][a-zA-Z0-9_.\[\]]*)\s+(\w+)\s*$/
\* tried at index p
MemberMatchAt(t, p) ==
    LET Member(end, tail) ==
            IF tail.found THEN [found |-> TRUE, type |-> Substring(t, p, end), name |-> tail.name]
            ELSE NoMatch
        Simple(typeEnd) ==
            IF CharAt(t, p) \in IdentStart THEN Member(typeEnd, MemberTail(t, typeEnd))
            ELSE NoMatch
        Mapping(q, afterMapping, mappingTail) ==
            IF MatchesAt(t, MAPPING_OPEN, p) /\ q > p + 8 /\ q < Len(t) /\ mappingTail.found
              THEN Member(afterMapping, mappingTail)
              ELSE Simple(SkipIn(t, p + 1, DottedTypeChars))
        After(q, afterMapping) == Mapping(q, afterMapping, MemberTail(t, afterMapping))
        From(q) == After(q, IF MatchesAt(t, <<"[","]">>, q + 1) THEN q + 3 ELSE q + 1)
    IN From(SkipNotIn(t, p + 8, {")"}))

\* trimmed.match(member pattern): the leftmost match
MemberMatch(t) == Exec(t, 0, LAMBDA k : MemberMatchAt(t, k))

RECURSIVE StructMembers(_, _)
\* the loop over the members of one struct body, from member k on
StructMembers(members, k) ==
    IF k > Len(members) THEN <<>>
    ELSE LET Member(memberMatch) ==
                 IF memberMatch.found
                   THEN <<[originalType |-> Trim(memberMatch.type), name |-> memberMatch.name]>>
                            \o StructMembers(members, k + 1)
                   ELSE StructMembers(members, k + 1)
         IN Member(MemberMatch(Trim(members[k])))

RECURSIVE StructRawMap(_, _, _)
\* the exec loop over structPattern from lastIndex p (first pass): structRawMap.
\* A match can only start at an occurrence of the literal "struct".
StructRawMap(source, p, structRawMap) ==
    LET Members(split) == FilterNonBlank(split, Len(split))
        Set(m, components) ==
            IF Len(components) > 0
              THEN StructRawMap(source, m.end,
                     [n \in DOMAIN structRawMap \cup {m.name} |->
                        IF n = m.name THEN [body |-> m.body, components |-> components]
                        ELSE structRawMap[n]])
              ELSE StructRawMap(source, m.end, structRawMap)
        Matched(q, m) ==
            IF ~m.found THEN StructRawMap(source, q + 1, structRawMap)
            ELSE Set(m, StructMembers(Members(Split(m.body, ";")), 1))
        From(q) == IF q = -1 THEN structRawMap ELSE Matched(q, StructMatchAt(source, q))
    IN From(IndexOfFrom(source, <<"s","t","r","u","c","t">>, p))

EmptyMap == [n \in {} |-> <<>>]

\* outcome of a call that may end in a RangeError
Thrown == [thrown |-> TRUE, value |-> <<>>]
Returned(v) == [thrown |-> FALSE, value |-> v]

STR_uint8 == <<"u","i","n","t","8">>
STR_tuple == <<"t","u","p","l","e">>

\* originalType.split('.')[originalType.split('.').length - 1]
Last(parts) == parts[Len(parts)]
LastDotPart(type) == Last(Split(type, "."))

RECURSIVE convertToAbiComponents(_, _, _, _)
RECURSIVE MapComponents(_, _, _, _, _)

\* raw.components.map(c => ...), from component k on, at call depth `depth`
MapComponents(structRawMap, enumSet, components, k, depth) ==
    IF k > Len(components) THEN Returned(<<>>)
    ELSE LET c == components[k]
             originalType == c.originalType
             Tuple(nested) ==
                 IF nested.thrown THEN Thrown
                 ELSE Returned([name |-> c.name, type |-> STR_tuple, components |-> nested.value])
             Mapped(typeName) ==
                 IF typeName \in enumSet
                   THEN Returned([name |-> c.name, type |-> STR_uint8, components |-> <<>>])
                 ELSE IF typeName \in DOMAIN structRawMap
                   THEN Tuple(convertToAbiComponents(structRawMap, enumSet, typeName, depth + 1))
                 ELSE Returned([name |-> c.name, type |-> originalType, components |-> <<>>])
             Joined(this, rest) ==
                 IF this.thrown THEN Thrown
                 ELSE IF rest.thrown THEN Thrown
                 ELSE Returned(<<this.value>> \o rest.value)
         IN Joined(Mapped(LastDotPart(originalType)),
                   MapComponents(structRawMap, enumSet, components, k + 1, depth))

\* second pass; the recursion has no guard of its own, so the only thing that
\* ends a cyclic expansion is the engine's call stack
convertToAbiComponents(structRawMap, enumSet, structName, depth) ==
    IF depth > MaxCallDepth THEN Thrown
    ELSE IF structName \notin DOMAIN structRawMap THEN Returned(<<>>)
    ELSE MapComponents(structRawMap, enumSet, structRawMap[structName].components, 1, depth)

parseStructDefinitions(source) ==
    LET Context(enumSet, structRawMap, abi) ==
            IF \E n \in DOMAIN structRawMap : abi[n].thrown THEN Thrown
            ELSE Returned([structMap |-> [n \in {x \in DOMAIN structRawMap : Len(abi[x].value) > 0} |->
                                             abi[n].value],
                           enumSet |-> enumSet])
        Converted(enumSet, structRawMap) ==
            Context(enumSet, structRawMap,
                    [n \in DOMAIN structRawMap |->
                       convertToAbiComponents(structRawMap, enumSet, n, 0)])
    IN Converted(EnumNames(source, 0), StructRawMap(source, 0, EmptyMap))

----------------------------------------------------------------------------
(* contractParser.ts: type resolution helpers *)

resolveTypeName(type) == LastDotPart(Trim(RemoveStorageLocation(type)))

\* found = FALSE is the undefined result of Map.get
getComponentsForType(type, context) ==
    LET Get(typeName) ==
            IF typeName \in DOMAIN context.structMap
              THEN [found |-> TRUE, components |-> context.structMap[typeName]]
              ELSE [found |-> FALSE, components |-> <<>>]
    IN Get(resolveTypeName(type))

canResolveType(type, context) ==
    IF ~isCustomType(type) THEN TRUE
    ELSE LET Known(typeName) ==
                 IF typeName \in context.enumSet THEN TRUE
                 ELSE typeName \in DOMAIN context.structMap
         IN Known(resolveTypeName(type))

RECURSIVE extractFinalValueType(_, _)
\* the recursion has no guard of its own: when extractMappingValueType hands
\* the type back unchanged it only ends with the engine's call stack
extractFinalValueType(type, depth) ==
    IF depth > MaxCallDepth THEN Thrown
    ELSE IF ~isMappingType(type) THEN Returned(type)
    ELSE extractFinalValueType(extractMappingValueType(type), depth + 1)

----------------------------------------------------------------------------
(* contractParser.ts: findPublicStateVariables *)

KW_public == <<"p","u","b","l","i","c">>
KW_private == <<"p","r","i","v","a","t","e">>
KW_internal == <<"i","n","t","e","r","n","a","l">>
KW_external == <<"e","x","t","e","r","n","a","l">>
KW_constant == <<"c","o","n","s","t","a","n","t">>
KW_immutable == <<"i","m","m","u","t","a","b","l","e">>
KW_override == <<"o","v","e","r","r","i","d","e">>
KW_function == <<"f","u","n","c","t","i","o","n">>
KW_mapping == <<"m","a","p","p","i","n","g">>
KW_view == <<"v","i","e","w">>
KW_pure == <<"p","u","r","e">>
KW_returns == <<"r","e","t","u","r","n","s">>

\* the keyword lit followed by \s+, tried at index i: the index behind it, -1 if no match
KeywordSpaces(s, lit, i) ==
    LET e == SkipIn(s, i + Len(lit), Space)
    IN IF MatchesAt(s, lit, i) /\ e > i + Len(lit) THEN e ELSE -1

\* (\w+)\s*[;=] tried at index i
NameTail(s, i) ==
    LET e == SkipIn(s, i, WordChars)
        f == SkipIn(s, e, Space)
    IN IF e > i /\ CharAt(s, f) \in {";", "="}
         THEN [found |-> TRUE, name |-> Substring(s, i, e), end |-> f + 1]
         ELSE NoMatch

\* an alternation of two keyword groups: a and b are the indices behind them,
\* -1 for a group that does not match
Either(a, b) == IF a # -1 THEN a ELSE b

\* an optional group in front of Rest, tried at index i: j is the index behind
\* the group, -1 if the group does not match at i.  The group is taken if
\* the rest then matches.
OptionalGroup(i, j, Rest(_)) == IF j # -1 /\ Rest(j).found THEN Rest(j) ELSE Rest(i)

\* (?:private\s+|internal\s+)?(\w+)\s*[;=] tried at index i
VisibilityTail(s, i) ==
    OptionalGroup(i, Either(KeywordSpaces(s, KW_private, i), KeywordSpaces(s, KW_internal, i)),
                  LAMBDA k : NameTail(s, k))

RECURSIVE OverrideTail(_, _)
\* (?:override\s+)* and what follows it, tried at index i
OverrideTail(s, i) ==
    LET Repeat(j) ==
            IF j # -1 /\ OverrideTail(s, j).found THEN OverrideTail(s, j)
            ELSE VisibilityTail(s, i)
    IN Repeat(KeywordSpaces(s, KW_override, i))

\* (?:constant\s+|immutable\s+)? and what follows it, tried at index i
ConstantTail(s, i) ==
    OptionalGroup(i, Either(KeywordSpaces(s, KW_constant, i), KeywordSpaces(s, KW_immutable, i)),
                  LAMBDA k : OverrideTail(s, k))

\* simpleTypePattern
\*   /([a-zA-Z_][a-zA-Z0-9_\[\]]*)\s+(public\s+)?(?:constant\s+|immutable\s+)?
\*    (?:override\s+)*(?:private\s+|internal\s+)?(\w+)\s*[;=]/
\* tried at index p; each optional group is taken if the rest then matches
\* the match of what follows the group (public\s+)?, with whether the group is taken
PublicTail(tail, hasPublic) ==
    IF tail.found
      THEN [found |-> TRUE, hasPublic |-> hasPublic, name |-> tail.name, end |-> tail.end]
      ELSE NoMatch

SimpleTypeMatchAt(s, p) ==
    LET t == SkipIn(s, p + 1, SimpleTypeChars)
        w == SkipIn(s, t, Space)
        Match(tail) ==
            IF tail.found
              THEN [found |-> TRUE, index |-> p, type |-> Substring(s, p, t),
                    hasPublic |-> tail.hasPublic, name |-> tail.name, end |-> tail.end]
              ELSE NoMatch
    IN IF CharAt(s, p) \notin IdentStart \/ w = t THEN NoMatch
       ELSE Match(OptionalGroup(w, KeywordSpaces(s, KW_public, w),
                                LAMBDA k : PublicTail(ConstantTail(s, k), k # w)))

\* FUNCTION_DECLARATION /\bfunction\s+\w+\s*\(/ tried at index i
FunctionDeclarationAt(s, i) ==
    LET w == SkipIn(s, i + 8, Space)
        n == SkipIn(s, w, WordChars)
    IN /\ MatchesAt(s, KW_function, i)
       /\ WordBoundary(s, i)
       /\ w > i + 8
       /\ n > w
       /\ CharAt(s, SkipIn(s, n, Space)) = "("

\* the "inside a function body" test applied to the text before a candidate
InsideFunction(cleaned, index) ==
    LET beforeMatch == Substring(cleaned, 0, index)
        openBraces == CountChar(beforeMatch, "{")
        closeBraces == CountChar(beforeMatch, "}")
        functionDeclarations ==
            Cardinality({i \in 0..(Len(beforeMatch) - 1) : FunctionDeclarationAt(beforeMatch, i)})
    IN openBraces > closeBraces /\ functionDeclarations > 0

RECURSIVE SimpleStateVariables(_, _)
\* the exec loop over simpleTypePattern from lastIndex p
SimpleStateVariables(cleaned, p) ==
    LET Pushed(simpleMatch, beforeType, matchText) ==
            IF Includes(beforeType, KW_mapping) THEN <<>>
            ELSE IF Includes(matchText, KW_private) \/ Includes(matchText, KW_internal) THEN <<>>
            ELSE IF ~simpleMatch.hasPublic THEN <<>>
            ELSE IF InsideFunction(cleaned, simpleMatch.index) THEN <<>>
            ELSE <<[type |-> Trim(simpleMatch.type), name |-> Trim(simpleMatch.name),
                    index |-> simpleMatch.index]>>
        Matched(simpleMatch) ==
            IF ~simpleMatch.found THEN <<>>
            ELSE Pushed(simpleMatch,
                        Substring(cleaned, Max2(0, simpleMatch.index - 10), simpleMatch.index),
                        Substring(cleaned, simpleMatch.index, simpleMatch.end))
                   \o SimpleStateVariables(cleaned, simpleMatch.end)
    IN Matched(Exec(cleaned, p, LAMBDA k : SimpleTypeMatchAt(cleaned, k)))

\* mappingPattern /mapping\s*\(/ tried at index q: index of its parenthesis, -1 if no match
MappingOpenAt(s, q) ==
    LET b == SkipIn(s, q + 7, Space)
    IN IF MatchesAt(s, KW_mapping, q) /\ CharAt(s, b) = "(" THEN b ELSE -1

\* publicPattern /public\s+([a-zA-Z_][a-zA-Z0-9_]*)\s*[;=]/ tried at index i
PublicNameAt(s, i) ==
    LET w == KeywordSpaces(s, KW_public, i)
        e == SkipIn(s, w, WordChars)
        f == SkipIn(s, e, Space)
    IN IF w # -1 /\ CharAt(s, w) \in IdentStart /\ CharAt(s, f) \in {";", "="}
         THEN [found |-> TRUE, index |-> i, name |-> Substring(s, w, e), length |-> f + 1 - i]
         ELSE NoMatch

\* afterType.match(publicPattern): the leftmost match
PublicNameMatch(s) == Exec(s, 0, LAMBDA k : PublicNameAt(s, k))

\* the body of the loop over mappingPattern behind the "inside a function
\* body" test, for the match at index q: the state variable it pushes, if any
MappingVariable(cleaned, q, mappingStartIndex, closingParenIndex) ==
    LET typeEnd == closingParenIndex + 1
        type == Substring(cleaned, q, typeEnd)
        Public(publicMatch, betweenMappingAndName, varName) ==
            IF ~publicMatch.found THEN <<>>
            ELSE IF \/ Includes(betweenMappingAndName, KW_private)
                    \/ Includes(betweenMappingAndName, KW_internal) THEN <<>>
            ELSE IF Len(varName) > 0 THEN <<[type |-> Trim(type), name |-> varName, index |-> q]>>
            ELSE <<>>
        Named(publicMatch) ==
            Public(publicMatch,
                   Substring(cleaned, q, typeEnd + publicMatch.index + publicMatch.length),
                   Trim(publicMatch.name))
    IN IF closingParenIndex > mappingStartIndex
         THEN Named(PublicNameMatch(SubstringFrom(cleaned, typeEnd)))
         ELSE <<>>

RECURSIVE MappingStateVariables(_, _)
\* the exec loop over mappingPattern from lastIndex p
MappingStateVariables(cleaned, p) ==
    LET mappingStartIndex(q) == IndexOfFrom(cleaned, <<"(">>, q)
        Matched(q) ==
            IF q = -1 THEN <<>>
            ELSE (IF InsideFunction(cleaned, q) THEN <<>>
                  ELSE MappingVariable(cleaned, q, mappingStartIndex(q),
                         findMatchingClosingParen(cleaned, mappingStartIndex(q), FALSE)))
                   \o MappingStateVariables(cleaned, MappingOpenAt(cleaned, q) + 1)
    IN Matched(FirstIndex(p, Len(cleaned) - 1, LAMBDA k : MappingOpenAt(cleaned, k) # -1))

\* findPublicStateVariables with its two loops exchanged
findPublicStateVariablesMappingsFirst(cleaned) ==
    MappingStateVariables(cleaned, 0) \o SimpleStateVariables(cleaned, 0)

findPublicStateVariables(cleaned) ==
    SimpleStateVariables(cleaned, 0) \o MappingStateVariables(cleaned, 0)

----------------------------------------------------------------------------
(* contractParser.ts: processStateVariables *)

STR_value == <<"v","a","l","u","e">>
STR_uint256 == <<"u","i","n","t","2","5","6">>
STR_function == <<"f","u","n","c","t","i","o","n">>
STR_key == <<"k","e","y">>
WarningHelp == <<"."," ","P","l","e","a","s","e"," ","a","d","d"," ","t","h","e"," ","s","t","r","u","c","t"," ","d","e","f","i","n","i","t","i","o","n"," ","t","o"," ","t","h","e"," ","c","o","n","t","r","a","c","t"," ","s","o","u","r","c","e"," ","o","r"," ","u","s","e"," ","A","B","I"," ","J","S","O","N"," ","m","o","d","e",".">>

\* `${n}` for a small positive integer
DigitSeq == <<"0","1","2","3","4","5","6","7","8","9">>
RECURSIVE NumberToString(_)
NumberToString(n) ==
    IF n < 10 THEN <<DigitSeq[n + 1]>>
    ELSE NumberToString(n \div 10) \o <<DigitSeq[(n % 10) + 1]>>

\* keys.forEach((key, index) => inputs.push({ name: `key${index + 1}`, type: key }))
KeyInputs(keys) == [i \in 1..Len(keys) |-> [name |-> STR_key \o NumberToString(i), type |-> keys[i]]]

\* the index a loop breaks at: the least of the indices in bad, 0 if there is none
FirstOf(bad) == IF bad = {} THEN 0 ELSE CHOOSE i \in bad : \A j \in bad : i <= j

\* index of the first input whose type is an unresolved custom type, 0 if none
FirstUnresolved(inputs, context) ==
    FirstOf({i \in 1..Len(inputs) :
                isCustomType(inputs[i].type) /\ ~canResolveType(inputs[i].type, context)})

\* CopyParams losing the names: inputs.map(i => ({ type: i.type }))
CopyParamsUnnamed(params) == [i \in 1..Len(params) |-> [name |-> <<>>, type |-> params[i].type]]

\* inputs.map(i => ({ name: i.name, type: i.type }))
CopyParams(params) == [i \in 1..Len(params) |-> [name |-> params[i].name, type |-> params[i].type]]

EmptyResult == [functions |-> <<>>, originalItems |-> <<>>, warnings |-> <<>>, thrown |-> FALSE]

\* the end of one iteration of the loop over stateVarMatches: the check of
\* the inputs, whose first unresolved one has index unresolved, and the pushes
StateVariableItem(name, inputs, unresolved, outputType, outputComponents, acc) ==
    IF unresolved # 0
      THEN [acc EXCEPT !.warnings = Append(@,
              <<"S","k","i","p","p","i","n","g"," ","\"">> \o name \o <<"\"",":"," ","M","i","s","s","i","n","g"," ","s","t","r","u","c","t"," ","d","e","f","i","n","i","t","i","o","n"," ","f","o","r"," ","i","n","p","u","t"," ","t","y","p","e"," ","\"">>
                \o inputs[unresolved].type \o <<"\"">> \o WarningHelp)]
      ELSE [acc EXCEPT
              !.functions = Append(@,
                 [name |-> name,
                  inputs |-> inputs,
                  outputs |-> <<[name |-> STR_value, type |-> outputType]>>,
                  stateMutability |-> KW_view]),
              !.originalItems = Append(@,
                 [type |-> STR_function,
                  name |-> name,
                  inputs |-> CopyParams(inputs),
                  outputs |-> <<[name |-> STR_value, type |-> outputType,
                                 components |-> outputComponents]>>,
                  stateMutability |-> KW_view])]

\* the branch for a mapping behind valueType, given
\* isEnum = context.enumSet.has(valueTypeName), custom = isCustomType(valueType)
\* and components = getComponentsForType(valueType, context)
MappingValue(name, inputs, unresolved, valueType, isEnum, custom, components, acc) ==
    IF isEnum THEN StateVariableItem(name, inputs, unresolved, STR_uint8, <<>>, acc)
    ELSE IF custom
      THEN IF components.found
             THEN StateVariableItem(name, inputs, unresolved, STR_tuple,
                                    components.components, acc)
             ELSE [acc EXCEPT !.warnings = Append(@,
                     <<"S","k","i","p","p","i","n","g"," ","\"">> \o name \o <<"\"",":"," ","M","i","s","s","i","n","g"," ","s","t","r","u","c","t"," ","d","e","f","i","n","i","t","i","o","n"," ","f","o","r"," ","\"">>
                       \o valueType \o <<"\"">> \o WarningHelp)]
    ELSE StateVariableItem(name, inputs, unresolved, valueType, <<>>, acc)

\* the branch for a mapping behind the storage location is removed from valueType
MappingGetter(name, inputs, valueType, context, acc) ==
    MappingValue(name, inputs, FirstUnresolved(inputs, context), valueType,
                 resolveTypeName(valueType) \in context.enumSet,
                 isCustomType(valueType),
                 getComponentsForType(valueType, context),
                 acc)

\* the branch for a mapping, given its inputs and final = extractFinalValueType(type)
MappingStep(name, inputs, final, context, acc) ==
    IF final.thrown THEN [acc EXCEPT !.thrown = TRUE]
    ELSE MappingGetter(name, inputs, normalizeType(final.value), context, acc)

\* one iteration of the loop over stateVarMatches: acc is the result so far,
\* seenNames the names met before this match
StateVariableStep(match, context, acc, seenNames) ==
    LET type == match.type
        name == match.name
    IN IF name \in seenNames THEN acc
       ELSE IF StartsWith(type, KW_mapping) /\ ~Includes(type, ARROW) THEN acc
       ELSE IF StartsWith(type, MAPPING_OPEN)
         THEN MappingStep(name, KeyInputs(extractMappingKeys(type)),
                          extractFinalValueType(type, 0), context, acc)
       ELSE StateVariableItem(name, <<>>, FirstUnresolved(<<>>, context), type, <<>>, acc)

RECURSIVE StateVariableLoopKeepAll(_, _, _, _, _)
\* StateVariableLoop without seenNames.add(name)
StateVariableLoopKeepAll(stateVarMatches, context, k, acc, seenNames) ==
    IF k > Len(stateVarMatches) \/ acc.thrown THEN acc
    ELSE StateVariableLoopKeepAll(stateVarMatches, context, k + 1,
                                  StateVariableStep(stateVarMatches[k], context, acc, seenNames),
                                  seenNames)

RECURSIVE StateVariableLoop(_, _, _, _, _)
\* the loop over stateVarMatches from match k on; a RangeError ends it
StateVariableLoop(stateVarMatches, context, k, acc, seenNames) ==
    IF k > Len(stateVarMatches) \/ acc.thrown THEN acc
    ELSE StateVariableLoop(stateVarMatches, context, k + 1,
                           StateVariableStep(stateVarMatches[k], context, acc, seenNames),
                           seenNames \cup {stateVarMatches[k].name})

processStateVariables(stateVarMatches, context) ==
    StateVariableLoop(stateVarMatches, context, 1, EmptyResult, {})

----------------------------------------------------------------------------
(* contractParser.ts: processViewAndPureFunctions *)

\* (public|external|private|internal) under the flag i, tried at index i:
\* length of the keyword matched, 0 if none
VisibilityAt(s, i) ==
    IF MatchesAtCI(s, KW_public, i) THEN Len(KW_public)
    ELSE IF MatchesAtCI(s, KW_external, i) THEN Len(KW_external)
    ELSE IF MatchesAtCI(s, KW_private, i) THEN Len(KW_private)
    ELSE IF MatchesAtCI(s, KW_internal, i) THEN Len(KW_internal)
    ELSE 0

\* (view|pure) under the flag i, tried at index i: length matched, 0 if none
MutabilityAt(s, i) ==
    IF MatchesAtCI(s, KW_view, i) \/ MatchesAtCI(s, KW_pure, i) THEN 4 ELSE 0

\* (?:returns\s*\(([^)]+)\))? tried at index r: group 5 (empty when the group
\* is skipped) and the index behind the match
ReturnsTail(s, r) ==
    LET r2 == SkipIn(s, r + 7, Space)
        c2 == SkipNotIn(s, r2 + 1, {")"})
    IN IF /\ MatchesAtCI(s, KW_returns, r)
          /\ CharAt(s, r2) = "("
          /\ c2 > r2 + 1
          /\ c2 < Len(s)
         THEN [returns |-> Substring(s, r2 + 1, c2), end |-> c2 + 1]
         ELSE [returns |-> <<>>, end |-> r]

\* (view|pure)\s*(?:returns\s*\(([^)]+)\))? tried at index m
MutabilityTail(s, m) ==
    LET mutEnd == m + MutabilityAt(s, m)
        Matched(returnsTail) ==
            [found |-> TRUE, mutability |-> Substring(s, m, mutEnd),
             returns |-> returnsTail.returns, end |-> returnsTail.end]
    IN IF MutabilityAt(s, m) > 0 THEN Matched(ReturnsTail(s, SkipIn(s, mutEnd, Space)))
       ELSE NoMatch

\* (public|external|private|internal)?\s*(view|pure)\s*(?:returns...)? tried at
\* index a; the visibility group is taken when (view|pure) follows it, skipped
\* otherwise
FunctionTail(s, a) ==
    LET v == VisibilityAt(s, a)
        Matched(hasVisibility, rest) ==
            IF rest.found
              THEN [found |-> TRUE,
                    hasVisibility |-> hasVisibility,
                    visibility |-> IF hasVisibility THEN Substring(s, a, a + v) ELSE <<>>,
                    mutability |-> rest.mutability,
                    returns |-> rest.returns,
                    end |-> rest.end]
              ELSE NoMatch
        Taken(withVisibility) ==
            IF v > 0 /\ withVisibility.found THEN Matched(TRUE, withVisibility)
            ELSE Matched(FALSE, MutabilityTail(s, a))
    IN Taken(MutabilityTail(s, SkipIn(s, a + v, Space)))

\* functionRegex
\*   /function\s+(\w+)\s*\(([^)]*)\)\s*(public|external|private|internal)?\s*(view|pure)\s*
\*    (?:returns\s*\(([^)]+)\))?/gi
\* tried at index q
FunctionMatchAt(s, q) ==
    LET w == SkipIn(s, q + 8, Space)
        n == SkipIn(s, w, WordChars)
        b == SkipIn(s, n, Space)
        c == SkipNotIn(s, b + 1, {")"})
        Matched(rest) ==
            IF rest.found
              THEN [found |-> TRUE,
                    name |-> Substring(s, w, n),
                    params |-> Substring(s, b + 1, c),
                    hasVisibility |-> rest.hasVisibility,
                    visibility |-> rest.visibility,
                    mutability |-> rest.mutability,
                    returns |-> rest.returns,
                    end |-> rest.end]
              ELSE NoMatch
    IN IF /\ MatchesAtCI(s, KW_function, q)
          /\ w > q + 8
          /\ n > w
          /\ CharAt(s, b) = "("
          /\ c < Len(s)
         THEN Matched(FunctionTail(s, SkipIn(s, c + 1, Space)))
         ELSE NoMatch

RECURSIVE ParseClauses(_, _)
\* for (const param of params) { parsed = parseParamOrReturn(param); if (parsed.type) push }
ParseClauses(clauses, k) ==
    IF k > Len(clauses) THEN <<>>
    ELSE LET Pushed(parsed) == IF Len(parsed.type) > 0 THEN <<parsed>> ELSE <<>>
         IN Pushed(parseParamOrReturn(clauses[k])) \o ParseClauses(clauses, k + 1)

\* the ABI rendering of one output, for an output the loop does not break at
OriginalOutput(output, context) ==
    LET Custom(components) ==
            IF components.found
              THEN [name |-> output.name, type |-> STR_tuple, components |-> components.components]
              ELSE [name |-> output.name, type |-> output.type, components |-> <<>>]
    IN IF resolveTypeName(output.type) \in context.enumSet
         THEN [name |-> output.name, type |-> STR_uint8, components |-> <<>>]
       ELSE IF isCustomType(output.type) THEN Custom(getComponentsForType(output.type, context))
       ELSE [name |-> output.name, type |-> output.type, components |-> <<>>]

\* index of the first output at which the loop over outputs breaks, 0 if none
FirstUnresolvedOutput(outputs, context) ==
    FirstOf({i \in 1..Len(outputs) :
                /\ resolveTypeName(outputs[i].type) \notin context.enumSet
                /\ isCustomType(outputs[i].type)
                /\ ~canResolveType(outputs[i].type, context)})

DefaultOutput == [name |-> STR_value, type |-> STR_uint256]

\* the end of the body of the exec loop: the two warnings, the `continue`
\* and the pushes, given the indices the two checking loops break at
FunctionItem(name, funcStateMutability, inputs, outputs, badInput, badOutput, originalOutputs, acc) ==
    LET Warning(what, typeName) ==
            <<<<"S","k","i","p","p","i","n","g"," ","f","u","n","c","t","i","o","n"," ","\"">> \o name \o <<"\"",":"," ","M","i","s","s","i","n","g"," ","s","t","r","u","c","t"," ","d","e","f","i","n","i","t","i","o","n"," ","f","o","r"," ">> \o what
                \o <<" ","t","y","p","e"," ","\"">> \o typeName \o <<"\"">> \o WarningHelp>>
    IN IF badInput # 0 \/ badOutput # 0
         THEN [acc EXCEPT !.warnings =
                 @ \o (IF badInput = 0 THEN <<>> ELSE Warning(<<"i","n","p","u","t">>, inputs[badInput].type))
                   \o (IF badOutput = 0 THEN <<>> ELSE Warning(<<"r","e","t","u","r","n">>, outputs[badOutput].type))]
         ELSE [acc EXCEPT
                 !.functions = Append(@,
                    [name |-> name,
                     inputs |-> inputs,
                     outputs |-> IF Len(outputs) > 0 THEN outputs ELSE <<DefaultOutput>>,
                     stateMutability |-> funcStateMutability]),
                 !.originalItems = Append(@,
                    [type |-> STR_function,
                     name |-> name,
                     inputs |-> CopyParams(inputs),
                     outputs |-> IF Len(originalOutputs) > 0 THEN originalOutputs
                                 ELSE <<[name |-> STR_value, type |-> STR_uint256,
                                         components |-> <<>>]>>,
                     stateMutability |-> funcStateMutability])]

\* funcMatch[4]?.trim() || 'view'
OrView(mutability) == IF mutability # <<>> THEN mutability ELSE KW_view

\* the body of the exec loop behind the parsing of inputs and outputs
FunctionParsed(funcMatch, inputs, outputs, context, acc) ==
    FunctionItem(funcMatch.name, OrView(Trim(funcMatch.mutability)), inputs, outputs,
                 FirstUnresolved(inputs, context),
                 FirstUnresolvedOutput(outputs, context),
                 [i \in 1..Len(outputs) |-> OriginalOutput(outputs[i], context)],
                 acc)

\* the body of the exec loop for one match of functionRegex
FunctionStep(funcMatch, context, acc) ==
    LET paramsStr == Trim(funcMatch.params)
        returnsStr == Trim(funcMatch.returns)
        visibility == IF funcMatch.hasVisibility /\ Trim(funcMatch.visibility) # <<>>
                        THEN Trim(funcMatch.visibility) ELSE KW_public
    IN IF visibility = KW_private \/ visibility = KW_internal THEN acc
       ELSE FunctionParsed(funcMatch,
              IF Len(paramsStr) > 0 THEN ParseClauses(splitByComma(paramsStr), 1) ELSE <<>>,
              IF Len(returnsStr) > 0 THEN ParseClauses(splitByComma(returnsStr), 1) ELSE <<>>,
              context, acc)

RECURSIVE FunctionLoop(_, _, _, _)
\* the exec loop over functionRegex from lastIndex p.  A match can only start
\* at an occurrence of "function" (in any letter case).
FunctionLoop(cleaned, context, p, acc) ==
    LET Matched(q, funcMatch) ==
            IF ~funcMatch.found THEN FunctionLoop(cleaned, context, q + 1, acc)
            ELSE FunctionLoop(cleaned, context, funcMatch.end,
                              FunctionStep(funcMatch, context, acc))
        From(q) == IF q = -1 THEN acc ELSE Matched(q, FunctionMatchAt(cleaned, q))
    IN From(IndexOfFromCI(cleaned, KW_function, p))

processViewAndPureFunctions(cleaned, context) ==
    FunctionLoop(cleaned, context, 0, EmptyResult)

----------------------------------------------------------------------------
(* UploadSelectors: the textual type substitution.                         *)
(*                                                                         *)
(* A Map<string, string> is the sequence of its [name, type] entries in    *)
(* insertion order.                                                        *)
(***************************************************************************)

RECURSIVE QualifiedNameEnd(_, _, _)
\* where the match of (?:\w+\.)*name\b tried at index p ends, -1 if there is
\* none: the greedy prefix takes every `identifier.` it can and gives them
\* back one by one
QualifiedNameEnd(s, p, name) ==
    LET j == SkipIn(s, p, WordChars)
        Longer(e) ==
            IF e # -1 THEN e
            ELSE IF MatchesAt(s, name, p) /\ WordBoundary(s, p + Len(name)) THEN p + Len(name)
            ELSE -1
    IN IF j > p /\ CharAt(s, j) = "." THEN Longer(QualifiedNameEnd(s, j + 1, name))
       ELSE Longer(-1)

\* re.test(result) of a fresh regex: is there a match anywhere
TestName(s, name) == \E p \in 0..(Len(s) - 1) : QualifiedNameEnd(s, p, name) # -1

RECURSIVE ReplaceName(_, _, _, _)
\* result.replace(re, replacement) with the flag g, from index i on
ReplaceName(s, name, replacement, i) ==
    LET From(p) ==
            IF p = -1 THEN SubstringFrom(s, i)
            ELSE Substring(s, i, p) \o replacement
                   \o ReplaceName(s, name, replacement, QualifiedNameEnd(s, p, name))
    IN From(FirstIndex(i, Len(s) - 1, LAMBDA k : QualifiedNameEnd(s, k, name) # -1))

RECURSIVE InsertByLength(_, _)
\* name put behind the names of sorted that are at least as long
InsertByLength(sorted, name) ==
    IF sorted = <<>> THEN <<name>>
    ELSE IF Len(Head(sorted)) >= Len(name) THEN <<Head(sorted)>> \o InsertByLength(Tail(sorted), name)
    ELSE <<name>> \o sorted

RECURSIVE SortedNames(_, _)
\* [...map.keys()].sort((a, b) => b.length - a.length) over the first n keys
SortedNames(map, n) ==
    IF n = 0 THEN <<>> ELSE InsertByLength(SortedNames(map, n - 1), map[n].name)

\* map.get(name)!
MapGet(map, name) == map[CHOOSE i \in DOMAIN map : map[i].name = name].type

RECURSIVE resolveTypeStr(_, _, _, _, _)
\* resolveTypeStr, the for loop standing at sortedNames[k]
resolveTypeStr(type, raw, sortedNames, visiting, k) ==
    IF k > Len(sortedNames) THEN type
    ELSE IF sortedNames[k] \in visiting \/ ~TestName(type, sortedNames[k])
      THEN resolveTypeStr(type, raw, sortedNames, visiting, k + 1)
    ELSE resolveTypeStr(
           ReplaceName(type, sortedNames[k],
                       resolveTypeStr(MapGet(raw, sortedNames[k]), raw, sortedNames,
                                      visiting \cup {sortedNames[k]}, 1), 0),
           raw, sortedNames, visiting, k + 1)

RECURSIVE ApplyNames(_, _, _, _)
\* the for loop of applyTypeMap standing at sortedNames[k]
ApplyNames(result, typeMap, sortedNames, k) ==
    IF k > Len(sortedNames) THEN result
    ELSE ApplyNames(ReplaceName(result, sortedNames[k], MapGet(typeMap, sortedNames[k]), 0),
                    typeMap, sortedNames, k + 1)

applyTypeMap(funcDef, typeMap) ==
    IF Len(typeMap) = 0 THEN funcDef
    ELSE ApplyNames(funcDef, typeMap, SortedNames(typeMap, Len(typeMap)), 1)

----------------------------------------------------------------------------
(* The source texts handed to parseSolidityContract.                       *)
(*                                                                         *)
(* A source text is a concatenation of at most MaxDecls declarations of    *)
(* the library below.  Beside its text a library entry records what the    *)
(* declaration is in Solidity terms; the parser never sees these fields:   *)
(*   kind    "enum", "struct", "variable" (public/private/internal state   *)
(*           variable) or "function"                                       *)
(*   name    the declared name                                             *)
(*   vis     the visibility keyword in the declaration, "" if none         *)
(*   mut     the mutability keyword of a function, "" if none              *)
(*   ins     parameter types (function) or mapping key types (variable),   *)
(*           outer to inner                                                *)
(*   outs    return types (function) or the final value type (variable)    *)
(*   fields  <<type, name>> of each field (struct), in declaration order   *)
(*   mapping TRUE for a variable of mapping type                           *)
(***************************************************************************)

Decl(text, kind, name, vis, mut, ins, outs, fields, mapping) ==
    [text |-> text, kind |-> kind, name |-> name, vis |-> vis, mut |-> mut,
     ins |-> ins, outs |-> outs, fields |-> fields, mapping |-> mapping]

Library == <<
    Decl(<<"e","n","u","m"," ","S"," ","{"," ","A",","," ","B"," ","}"," ">>, "enum", <<"S">>, "", "", <<>>, <<>>, <<>>, FALSE),
    Decl(<<"s","t","r","u","c","t"," ","U"," ","{"," ","a","d","d","r","e","s","s"," ","a",";"," ","S"," ","s",";"," ","}"," ">>, "struct", <<"U">>, "", "", <<>>, <<>>,
         << <<<<"a","d","d","r","e","s","s">>, <<"a">>>>, <<<<"S">>, <<"s">>>> >>, FALSE),
    Decl(<<"s","t","r","u","c","t"," ","O"," ","{"," ","U"," ","u",";"," ","L",".","S"," ","t",";"," ","u","i","n","t","[","]"," ","n",";"," ","}"," ">>, "struct", <<"O">>, "", "", <<>>, <<>>,
         << <<<<"U">>, <<"u">>>>, <<<<"L",".","S">>, <<"t">>>>, <<<<"u","i","n","t","[","]">>, <<"n">>>> >>, FALSE),
    Decl(<<"s","t","r","u","c","t"," ","R"," ","{"," ","R"," ","r",";"," ","}"," ">>, "struct", <<"R">>, "", "", <<>>, <<>>,
         << <<<<"R">>, <<"r">>>> >>, FALSE),
    Decl(<<"s","t","r","u","c","t"," ","P"," ","{"," ","u","i","n","t"," ","x",";"," ","Q"," ","q",";"," ","}"," ">>, "struct", <<"P">>, "", "", <<>>, <<>>,
         << <<<<"u","i","n","t">>, <<"x">>>>, <<<<"Q">>, <<"q">>>> >>, FALSE),
    Decl(<<"s","t","r","u","c","t"," ","Q"," ","{"," ","P"," ","p",";"," ","}"," ">>, "struct", <<"Q">>, "", "", <<>>, <<>>,
         << <<<<"P">>, <<"p">>>> >>, FALSE),
    Decl(<<"u","i","n","t","2","5","6"," ","p","u","b","l","i","c"," ","v",";"," ">>, "variable", <<"v">>, "public", "", <<>>, <<<<"u","i","n","t","2","5","6">>>>, <<>>, FALSE),
    Decl(<<"a","d","d","r","e","s","s"," ","p","u","b","l","i","c"," ","v",";"," ">>, "variable", <<"v">>, "public", "", <<>>, <<<<"a","d","d","r","e","s","s">>>>, <<>>, FALSE),
    Decl(<<"u","i","n","t","2","5","6"," ","p","r","i","v","a","t","e"," ","w",";"," ">>, "variable", <<"w">>, "private", "", <<>>, <<<<"u","i","n","t","2","5","6">>>>, <<>>, FALSE),
    Decl(<<"U"," ","p","u","b","l","i","c"," ","u",";"," ">>, "variable", <<"u">>, "public", "", <<>>, <<<<"U">>>>, <<>>, FALSE),
    Decl(<<"b","o","o","l"," ","p","u","b","l","i","c"," ","m",";"," ">>, "variable", <<"m">>, "public", "", <<>>, <<<<"b","o","o","l">>>>, <<>>, FALSE),
    Decl(<<"m","a","p","p","i","n","g","(","u","i","n","t"," ","=",">"," ","b","o","o","l",")"," ","p","u","b","l","i","c"," ","m",";"," ">>, "variable", <<"m">>, "public", "",
         <<<<"u","i","n","t">>>>, <<<<"b","o","o","l">>>>, <<>>, TRUE),
    Decl(<<"m","a","p","p","i","n","g","(","a","d","d","r","e","s","s"," ","=",">"," ","U",")"," ","p","u","b","l","i","c"," ","m",";"," ">>, "variable", <<"m">>, "public", "",
         <<<<"a","d","d","r","e","s","s">>>>, <<<<"U">>>>, <<>>, TRUE),
    Decl(<<"m","a","p","p","i","n","g","(","S"," ","=",">"," ","m","a","p","p","i","n","g","(","u","i","n","t"," ","=",">"," ","S",")",")"," ","p","u","b","l","i","c"," ","n",";"," ">>, "variable", <<"n">>, "public", "",
         <<<<"S">>, <<"u","i","n","t">>>>, <<<<"S">>>>, <<>>, TRUE),
    Decl(<<"m","a","p","p","i","n","g"," ","(","a","d","d","r","e","s","s"," ","=",">"," ","u","i","n","t",")"," ","p","u","b","l","i","c"," ","b",";"," ">>, "variable", <<"b">>, "public", "",
         <<<<"a","d","d","r","e","s","s">>>>, <<<<"u","i","n","t">>>>, <<>>, TRUE),
    Decl(<<"m","a","p","p","i","n","g","(","u","i","n","t"," ","=",">"," ","b","o","o","l",")"," ","i","n","t","e","r","n","a","l"," ","i",";"," ">>, "variable", <<"i">>, "internal", "",
         <<<<"u","i","n","t">>>>, <<<<"b","o","o","l">>>>, <<>>, TRUE),
    Decl(<<"m","a","p","p","i","n","g","(","(","a"," ","=",">"," ","b",")",")"," ","p","u","b","l","i","c"," ","x",";"," ">>, "variable", <<"x">>, "public", "",
         <<>>, <<>>, <<>>, TRUE),
    Decl(<<"f","u","n","c","t","i","o","n"," ","f","(","U"," ","m","e","m","o","r","y"," ","a",")"," ","p","u","b","l","i","c"," ","v","i","e","w"," ","r","e","t","u","r","n","s"," ","(","U"," ","m","e","m","o","r","y",")"," ","{","}"," ">>, "function", <<"f">>,
         "public", "view", <<<<"U">>>>, <<<<"U">>>>, <<>>, FALSE),
    Decl(<<"f","u","n","c","t","i","o","n"," ","f","(","u","i","n","t"," ","x",")"," ","e","x","t","e","r","n","a","l"," ","p","u","r","e"," ","r","e","t","u","r","n","s"," ","(","u","i","n","t"," ","y",")"," ","{","}"," ">>, "function", <<"f">>,
         "external", "pure", <<<<"u","i","n","t">>>>, <<<<"u","i","n","t">>>>, <<>>, FALSE),
    Decl(<<"f","u","n","c","t","i","o","n"," ","e","(","S"," ","s",")"," ","p","u","b","l","i","c"," ","v","i","e","w"," ","r","e","t","u","r","n","s"," ","(","S",")"," ","{","}"," ">>, "function", <<"e">>,
         "public", "view", <<<<"S">>>>, <<<<"S">>>>, <<>>, FALSE),
    Decl(<<"f","u","n","c","t","i","o","n"," ","t","(",")"," ","e","x","t","e","r","n","a","l"," ","v","i","e","w"," ","{","}"," ">>, "function", <<"t">>,
         "external", "view", <<>>, <<>>, <<>>, FALSE),
    Decl(<<"f","u","n","c","t","i","o","n"," ","g","(",")"," ","v","i","e","w"," ","p","r","i","v","a","t","e"," ","r","e","t","u","r","n","s"," ","(","u","i","n","t",")"," ","{","}"," ">>, "function", <<"g">>,
         "private", "view", <<>>, <<<<"u","i","n","t">>>>, <<>>, FALSE),
    Decl(<<"f","u","n","c","t","i","o","n"," ","h","(",")"," ","i","n","t","e","r","n","a","l"," ","p","u","r","e"," ","r","e","t","u","r","n","s"," ","(","u","i","n","t",")"," ","{","}"," ">>, "function", <<"h">>,
         "internal", "pure", <<>>, <<<<"u","i","n","t">>>>, <<>>, FALSE),
    Decl(<<"f","u","n","c","t","i","o","n"," ","p","(",")"," ","p","u","b","l","i","c"," ","p","a","y","a","b","l","e"," ","{","}"," ">>, "function", <<"p">>,
         "public", "payable", <<>>, <<>>, <<>>, FALSE),
    Decl(<<"f","u","n","c","t","i","o","n"," ","k","(",")"," ","p","u","b","l","i","c"," ","v","i","e","w","O","n","l","y"," ","{","}"," ">>, "function", <<"k">>,
         "public", "", <<>>, <<>>, <<>>, FALSE)
>>

RECURSIVE TextOf(_)
\* the source text of a sequence of library indices
TextOf(ds) == IF ds = <<>> THEN <<>> ELSE Library[Head(ds)].text \o TextOf(Tail(ds))

DeclLists == UNION {[1..n -> 1..Len(Library)] : n \in 0..MaxDecls}

----------------------------------------------------------------------------
(* parseSolidityContract as a state machine: one step per statement. *)

VARIABLES
    decls,            \* the declarations the source text is made of
    source,           \* the argument of parseSolidityContract
    pc,               \* the statement to run next, "done" or "thrown"
    context,          \* const context = parseStructDefinitions(source)
    cleaned,          \* const cleaned = removeComments(source)
    stateVarMatches,  \* const stateVarMatches = findPublicStateVariables(cleaned)
    stateVarResult,   \* const stateVarResult = processStateVariables(...)
    functionsResult,  \* const functionsResult = processViewAndPureFunctions(...)
    result,           \* the ParseResult returned
    fn,               \* the helper function called on its own, "none" before the call
    args,             \* the tuple of its arguments
    ret,              \* the value it returned
    input,            \* UploadSelectors: the text area, line by line
    parsed,           \* UploadSelectors: the entries listed, each a ParsedFunction
    uploading,        \* UploadSelectors: a request to the import endpoint is under way
    parseError,       \* UploadSelectors: "none" or the message shown
    uploadError,      \* UploadSelectors: "none" or the message shown
    uploadDone,       \* UploadSelectors: the last upload succeeded
    checks,           \* handleParse: the selector checks it awaits, <<>> when none
    signatures        \* handleUpload: the signatures sent in the request under way

\* the state of a call of parseSolidityContract
parserVars == <<decls, source, pc, context, cleaned, stateVarMatches, stateVarResult,
                functionsResult, result>>
\* the state of a call of one of the helper functions
callVars == <<fn, args, ret>>

\* the state of the UploadSelectors component and of its handlers under way
uploadVars == <<input, parsed, uploading, parseError, uploadError, uploadDone, checks, signatures>>

vars == <<parserVars, callVars, uploadVars>>

\* no helper function is called on its own
NoCall == fn = "none" /\ args = <<>> /\ ret = <<>>

\* UploadSelectors as useState leaves it when the component is mounted
NoUpload ==
    /\ input = <<>>
    /\ parsed = <<>>
    /\ uploading = FALSE
    /\ parseError = "none"
    /\ uploadError = "none"
    /\ uploadDone = FALSE
    /\ checks = <<>>
    /\ signatures = <<>>

EmptyContext == [structMap |-> EmptyMap, enumSet |-> {}]
EmptyParseResult == [functions |-> <<>>, originalItems |-> <<>>, warnings |-> <<>>]

Init ==
    /\ decls \in DeclLists
    /\ source = TextOf(decls)
    /\ pc = "parseStructDefinitions"
    /\ context = EmptyContext
    /\ cleaned = <<>>
    /\ stateVarMatches = <<>>
    /\ stateVarResult = EmptyResult
    /\ functionsResult = EmptyResult
    /\ result = EmptyParseResult
    /\ NoCall
    /\ NoUpload

\* const context = parseStructDefinitions(source)
ParseStructDefinitions ==
    /\ pc = "parseStructDefinitions"
    /\ LET Outcome(r) ==
               IF r.thrown
                 THEN pc' = "thrown" /\ UNCHANGED context
                 ELSE pc' = "removeComments" /\ context' = r.value
       IN Outcome(parseStructDefinitions(source))
    /\ UNCHANGED <<decls, source, cleaned, stateVarMatches, stateVarResult, functionsResult, result, callVars, uploadVars>>

\* const cleaned = removeComments(source)
RemoveComments ==
    /\ pc = "removeComments"
    /\ cleaned' = removeComments(source)
    /\ pc' = "findPublicStateVariables"
    /\ UNCHANGED <<decls, source, context, stateVarMatches, stateVarResult, functionsResult, result, callVars, uploadVars>>

\* const stateVarMatches = findPublicStateVariables(cleaned)
FindPublicStateVariables ==
    /\ pc = "findPublicStateVariables"
    /\ stateVarMatches' = findPublicStateVariables(cleaned)
    /\ pc' = "processStateVariables"
    /\ UNCHANGED <<decls, source, context, cleaned, stateVarResult, functionsResult, result, callVars, uploadVars>>

\* const stateVarResult = processStateVariables(stateVarMatches, context)
ProcessStateVariables ==
    /\ pc = "processStateVariables"
    /\ LET Outcome(r) ==
               IF r.thrown
                 THEN pc' = "thrown" /\ UNCHANGED stateVarResult
                 ELSE pc' = "processViewAndPureFunctions" /\ stateVarResult' = r
       IN Outcome(processStateVariables(stateVarMatches, context))
    /\ UNCHANGED <<decls, source, context, cleaned, stateVarMatches, functionsResult, result, callVars, uploadVars>>

\* const functionsResult = processViewAndPureFunctions(cleaned, context)
ProcessViewAndPureFunctions ==
    /\ pc = "processViewAndPureFunctions"
    /\ functionsResult' = processViewAndPureFunctions(cleaned, context)
    /\ pc' = "return"
    /\ UNCHANGED <<decls, source, context, cleaned, stateVarMatches, stateVarResult, result, callVars, uploadVars>>

\* return { functions: [...], originalItems: [...], warnings: [...] }
Return ==
    /\ pc = "return"
    /\ result' = [functions |-> stateVarResult.functions \o functionsResult.functions,
                  originalItems |-> stateVarResult.originalItems \o functionsResult.originalItems,
                  warnings |-> stateVarResult.warnings \o functionsResult.warnings]
    /\ pc' = "done"
    /\ UNCHANGED <<decls, source, context, cleaned, stateVarMatches, stateVarResult, functionsResult, callVars, uploadVars>>

Next ==
    \/ ParseStructDefinitions
    \/ RemoveComments
    \/ FindPublicStateVariables
    \/ ProcessStateVariables
    \/ ProcessViewAndPureFunctions
    \/ Return

Spec == Init /\ [][Next]_vars

----------------------------------------------------------------------------
(* parseSolidityContract on contract bodies.                               *)
(*                                                                         *)
(* A second family of source texts: at most MaxDecls of the members below, *)
(* on their own or inside `contract C { ... }`.  Beside the kinds of the   *)
(* library above a member is a "comment" (a declaration that stands in a   *)
(* comment only) or an "alias" (`type N is P;`, outs holding P).           *)
(***************************************************************************)

Members == <<
    Decl(<<"u","i","n","t","2","5","6"," ","p","u","b","l","i","c"," ","v",";"," ">>, "variable", <<"v">>, "public", "", <<>>, <<<<"u","i","n","t","2","5","6">>>>, <<>>, FALSE),
    Decl(<<"f","u","n","c","t","i","o","n"," ","t","(",")"," ","e","x","t","e","r","n","a","l"," ","v","i","e","w"," ","{","}"," ">>, "function", <<"t">>,
         "external", "view", <<>>, <<>>, <<>>, FALSE),
    Decl(<<"f","u","n","c","t","i","o","n"," ","f","(","u","i","n","t"," ","x",")"," ","e","x","t","e","r","n","a","l"," ","p","u","r","e"," ","r","e","t","u","r","n","s"," ","(","u","i","n","t"," ","y",")"," ","{","}"," ">>, "function", <<"f">>,
         "external", "pure", <<<<"u","i","n","t">>>>, <<<<"u","i","n","t">>>>, <<>>, FALSE),
    Decl(<<"f","u","n","c","t","i","o","n"," ","h","(",")"," ","p","u","b","l","i","c"," ","v","i","e","w"," ","o","v","e","r","r","i","d","e"," ","r","e","t","u","r","n","s"," ","(","b","o","o","l",")"," ","{","}"," ">>, "function", <<"h">>,
         "public", "view", <<>>, <<<<"b","o","o","l">>>>, <<>>, FALSE),
    Decl(<<"s","t","r","u","c","t"," ","U"," ","{"," ","a","d","d","r","e","s","s"," ","a",";"," ","}"," ">>, "struct", <<"U">>, "", "", <<>>, <<>>,
         << <<<<"a","d","d","r","e","s","s">>, <<"a">>>> >>, FALSE),
    Decl(<<"/","/"," ","s","t","r","u","c","t"," ","U"," ","{"," ","a","d","d","r","e","s","s"," ","a",";"," ","}","\n">>, "comment", <<"U">>, "", "", <<>>, <<>>, <<>>, FALSE),
    Decl(<<"/","*"," ","e","n","u","m"," ","S"," ","{"," ","A",","," ","B"," ","}"," ","*","/"," ">>, "comment", <<"S">>, "", "", <<>>, <<>>, <<>>, FALSE),
    Decl(<<"f","u","n","c","t","i","o","n"," ","g","(","U"," ","m","e","m","o","r","y"," ","a",")"," ","p","u","b","l","i","c"," ","v","i","e","w"," ","r","e","t","u","r","n","s"," ","(","u","i","n","t",")"," ","{","}"," ">>, "function", <<"g">>,
         "public", "view", <<<<"U">>>>, <<<<"u","i","n","t">>>>, <<>>, FALSE),
    Decl(<<"f","u","n","c","t","i","o","n"," ","e","(","u","i","n","t"," ","x",")"," ","p","u","b","l","i","c"," ","v","i","e","w"," ","r","e","t","u","r","n","s"," ","(","S",")"," ","{","}"," ">>, "function", <<"e">>,
         "public", "view", <<<<"u","i","n","t">>>>, <<<<"S">>>>, <<>>, FALSE),
    Decl(<<"t","y","p","e"," ","N"," ","i","s"," ","u","i","n","t","2","5","6",";"," ">>, "alias", <<"N">>, "", "", <<>>, <<<<"u","i","n","t","2","5","6">>>>, <<>>, FALSE),
    Decl(<<"f","u","n","c","t","i","o","n"," ","a","(","N"," ","x",")"," ","p","u","b","l","i","c"," ","p","u","r","e"," ","r","e","t","u","r","n","s"," ","(","N",")"," ","{","}"," ">>, "function", <<"a">>,
         "public", "pure", <<<<"N">>>>, <<<<"N">>>>, <<>>, FALSE),
    Decl(<<"m","a","p","p","i","n","g","(","a","d","d","r","e","s","s"," ","=",">"," ","N",")"," ","p","u","b","l","i","c"," ","m",";"," ">>, "variable", <<"m">>, "public", "",
         <<<<"a","d","d","r","e","s","s">>>>, <<<<"N">>>>, <<>>, TRUE),
    Decl(<<"m","a","p","p","i","n","g","(","u","i","n","t"," ","=",">"," ","b","o","o","l",")"," ","i",";"," ">>, "variable", <<"i">>, "", "",
         <<<<"u","i","n","t">>>>, <<<<"b","o","o","l">>>>, <<>>, TRUE),
    Decl(<<"m","a","p","p","i","n","g","(","a","d","d","r","e","s","s"," ","=",">"," ","u","i","n","t",")"," ","p","u","b","l","i","c"," ","b",";"," ">>, "variable", <<"b">>, "public", "",
         <<<<"a","d","d","r","e","s","s">>>>, <<<<"u","i","n","t">>>>, <<>>, TRUE)
>>

CONTRACT_OPEN == <<"c","o","n","t","r","a","c","t"," ","C"," ","{"," ">>
CONTRACT_CLOSE == <<"}"," ">>

RECURSIVE MemberText(_)
\* the source text of a sequence of member indices
MemberText(ds) == IF ds = <<>> THEN <<>> ELSE Members[Head(ds)].text \o MemberText(Tail(ds))

MemberLists == UNION {[1..n -> 1..Len(Members)] : n \in 0..MaxDecls}

InitContracts ==
    /\ decls \in MemberLists
    /\ source \in {MemberText(decls), CONTRACT_OPEN \o MemberText(decls) \o CONTRACT_CLOSE}
    /\ pc = "parseStructDefinitions"
    /\ context = EmptyContext
    /\ cleaned = <<>>
    /\ stateVarMatches = <<>>
    /\ stateVarResult = EmptyResult
    /\ functionsResult = EmptyResult
    /\ result = EmptyParseResult
    /\ NoCall
    /\ NoUpload

SpecContracts == InitContracts /\ [][Next]_vars

----------------------------------------------------------------------------
(* The helper functions called on their own.                               *)
(*                                                                         *)
(* Each of the specifications below draws the arguments of one family of   *)
(* exported functions from a bounded set of strings and applies the        *)
(* functions to them; parseSolidityContract is not running.                *)
(***************************************************************************)

\* the strings of length at most n over the characters of alphabet
Strings(alphabet, n) == UNION {[1..k -> alphabet] : k \in 0..n}

\* parseSolidityContract is not called
NoParse ==
    /\ decls = <<>>
    /\ source = <<>>
    /\ pc = "idle"
    /\ context = EmptyContext
    /\ cleaned = <<>>
    /\ stateVarMatches = <<>>
    /\ stateVarResult = EmptyResult
    /\ functionsResult = EmptyResult
    /\ result = EmptyParseResult

----------------------------------------------------------------------------
(* removeComments *)

\* length of the source texts handed to removeComments
MaxSourceLen == 5

\* the characters removeComments tells apart, and one it does not
CommentChars == {"/", "*", "\n", "\"", "'", "\\", "a"}

InitRemoveComments ==
    /\ NoParse
    /\ NoUpload
    /\ fn = "none"
    /\ args \in {<<s>> : s \in Strings(CommentChars, MaxSourceLen)}
    /\ ret = <<>>

\* removeComments(source)
CallRemoveComments ==
    /\ fn = "none"
    /\ fn' = "removeComments"
    /\ ret' = removeComments(args[1])
    /\ UNCHANGED <<args, parserVars, uploadVars>>

\* removeComments applied to what removeComments returned
CallRemoveCommentsAgain ==
    /\ fn = "removeComments"
    /\ fn' = "removeComments again"
    /\ args' = <<ret>>
    /\ ret' = removeComments(ret)
    /\ UNCHANGED <<parserVars, uploadVars>>

NextRemoveComments == CallRemoveComments \/ CallRemoveCommentsAgain

SpecRemoveComments == InitRemoveComments /\ [][NextRemoveComments]_vars

----------------------------------------------------------------------------
(* extractMappingKeys, parseMappingStructure and extractFinalValueType on  *)
(* well-formed mapping types                                               *)

\* number of mappings nested in a mapping type
MaxNesting == 3

\* key types: an elementary type, a qualified user-defined type, a named key
KeyTypes == {<<"a">>, <<"U",".","k">>, <<"u","i","n","t","8"," ","i","d">>}

\* value types that are not mapping types: an elementary type, a user-defined
\* type, an array type, a function type
ValueTypes == {<<"b","o","o","l">>, <<"U">>, <<"u","i","n","t","[","]">>, <<"f","u","n","c","t","i","o","n","(","a",")"," ","r","e","t","u","r","n","s","(","b",")">>}

\* the white space written around the parts of a mapping type
Paddings == {<<>>, <<" ">>}

RECURSIVE MappingText(_, _, _)
\* the text of mapping(K1 => mapping(K2 => ... mapping(Kn => V)))
MappingText(keys, value, pad) ==
    IF keys = <<>> THEN value
    ELSE MAPPING_OPEN \o pad \o Head(keys) \o pad \o ARROW \o pad
           \o MappingText(Tail(keys), value, pad) \o pad \o <<")">>

\* the well-formed nested mapping types with the keys and the value type each
\* is written from
WellFormedMappings ==
    {[keys |-> keys, value |-> value, text |-> MappingText(keys, value, pad)] :
        keys \in UNION {[1..n -> KeyTypes] : n \in 1..MaxNesting},
        value \in ValueTypes, pad \in Paddings}

InitMappingStructure ==
    /\ NoParse
    /\ NoUpload
    /\ fn = "none"
    /\ args \in {<<w.text>> : w \in WellFormedMappings}
    /\ ret = <<>>

\* extractMappingKeys(mappingType)
CallExtractMappingKeys ==
    /\ fn = "none"
    /\ fn' = "extractMappingKeys"
    /\ ret' = extractMappingKeys(args[1])
    /\ UNCHANGED <<args, parserVars, uploadVars>>

\* parseMappingStructure(mappingType)
CallParseMappingStructure ==
    /\ fn = "none"
    /\ fn' = "parseMappingStructure"
    /\ ret' = parseMappingStructure(args[1])
    /\ UNCHANGED <<args, parserVars, uploadVars>>

\* extractFinalValueType(type)
CallExtractFinalValueType ==
    /\ fn = "none"
    /\ fn' = "extractFinalValueType"
    /\ ret' = extractFinalValueType(args[1], 0)
    /\ UNCHANGED <<args, parserVars, uploadVars>>

NextMappingStructure ==
    \/ CallExtractMappingKeys
    \/ CallParseMappingStructure
    \/ CallExtractFinalValueType

SpecMappingStructure == InitMappingStructure /\ [][NextMappingStructure]_vars

----------------------------------------------------------------------------
(* extractMappingType *)

\* number of pieces a string handed to extractMappingType is written from
MaxPieces == 6

\* the pieces: the keyword, the parentheses, white space, anything else
MappingPieces == {KW_mapping, <<"(">>, <<")">>, <<" ">>, <<"a">>}

RECURSIVE Joined(_)
\* the pieces of a sequence written one behind the other
Joined(pieces) == IF pieces = <<>> THEN <<>> ELSE Head(pieces) \o Joined(Tail(pieces))

InitExtractMappingType ==
    /\ NoParse
    /\ NoUpload
    /\ fn = "none"
    /\ args \in {<<Joined(p)>> : p \in Strings(MappingPieces, MaxPieces)}
    /\ ret = <<>>

\* extractMappingType(str)
CallExtractMappingType ==
    /\ fn = "none"
    /\ fn' = "extractMappingType"
    /\ ret' = extractMappingType(args[1])
    /\ UNCHANGED <<args, parserVars, uploadVars>>

NextExtractMappingType == CallExtractMappingType

SpecExtractMappingType == InitExtractMappingType /\ [][NextExtractMappingType]_vars

----------------------------------------------------------------------------
(* findMatchingClosingParen *)

\* length of the strings handed to findMatchingClosingParen
MaxParenLen == 5

\* the characters findMatchingClosingParen tells apart, and one it does not
ParenChars == {"(", ")", "'", "\"", "\\", "a"}

InitFindMatchingClosingParen ==
    /\ NoParse
    /\ NoUpload
    /\ fn = "none"
    /\ args \in {<<s>> : s \in Strings(ParenChars, MaxParenLen)}
    /\ ret = <<>>

\* findMatchingClosingParen(str, startIndex, { ignoreStrings }) with an opening
\* parenthesis at startIndex
CallFindMatchingClosingParen ==
    /\ fn = "none"
    /\ \E startIndex \in 0..(Len(args[1]) - 1), ignoreStrings \in BOOLEAN :
          /\ args[1][startIndex + 1] = "("
          /\ fn' = "findMatchingClosingParen"
          /\ args' = <<args[1], startIndex, ignoreStrings>>
          /\ ret' = findMatchingClosingParen(args[1], startIndex, ignoreStrings)
    /\ UNCHANGED <<parserVars, uploadVars>>

NextFindMatchingClosingParen == CallFindMatchingClosingParen

SpecFindMatchingClosingParen ==
    InitFindMatchingClosingParen /\ [][NextFindMatchingClosingParen]_vars

----------------------------------------------------------------------------
(* findAtDepth *)

\* number of pieces a string handed to findAtDepth is written from
MaxDepthPieces == 5

\* the greatest targetDepth asked for
MaxTargetDepth == 2

\* the pieces: the parentheses, the separator of a mapping, anything else
DepthPieces == {<<"(">>, <<")">>, ARROW, <<"a">>}

\* the strings searched for
SearchStrings == {ARROW, <<")">>}

InitFindAtDepth ==
    /\ NoParse
    /\ NoUpload
    /\ fn = "none"
    /\ args \in {<<Joined(p)>> : p \in Strings(DepthPieces, MaxDepthPieces)}
    /\ ret = <<>>

\* findAtDepth(str, startIndex, searchStr, targetDepth)
CallFindAtDepth ==
    /\ fn = "none"
    /\ \E startIndex \in 0..Len(args[1]), searchStr \in SearchStrings,
          targetDepth \in 0..MaxTargetDepth :
          /\ fn' = "findAtDepth"
          /\ args' = <<args[1], startIndex, searchStr, targetDepth>>
          /\ ret' = findAtDepth(args[1], startIndex, searchStr, targetDepth)
    /\ UNCHANGED <<parserVars, uploadVars>>

NextFindAtDepth == CallFindAtDepth

SpecFindAtDepth == InitFindAtDepth /\ [][NextFindAtDepth]_vars

----------------------------------------------------------------------------
(* splitByComma *)

\* length of the strings handed to splitByComma
MaxListLen == 6

\* the characters splitByComma tells apart, white space, anything else
ListChars == {"(", ")", ",", " ", "a"}

InitSplitByComma ==
    /\ NoParse
    /\ NoUpload
    /\ fn = "none"
    /\ args \in {<<s>> : s \in Strings(ListChars, MaxListLen)}
    /\ ret = <<>>

\* splitByComma(str)
CallSplitByComma ==
    /\ fn = "none"
    /\ fn' = "splitByComma"
    /\ ret' = splitByComma(args[1])
    /\ UNCHANGED <<args, parserVars, uploadVars>>

NextSplitByComma == CallSplitByComma

SpecSplitByComma == InitSplitByComma /\ [][NextSplitByComma]_vars

----------------------------------------------------------------------------
(* parseParamOrReturn and isCustomType *)

\* number of pieces in the clause strings handed to parseParamOrReturn and
\* isCustomType
MaxParamPieces == 4

\* storage-location keywords in both letter cases, a mapping type and an
\* unclosed one, and the characters TYPE_WITH_NAME and isCustomType tell apart
ParamPieces == {<<"m","e","m","o","r","y">>, <<"S","t","o","r","a","g","e">>, <<"m","a","p","p","i","n","g","(","a"," ","=",">"," ","b",")">>, <<"m","a","p","p","i","n","g","(">>, <<" ">>, <<"x">>, <<"U">>,
                <<"u","i","n","t">>, <<".">>, <<"[","]">>, <<"_">>, <<"1">>, <<"(">>}

InitParameterParser ==
    /\ NoParse
    /\ NoUpload
    /\ fn = "none"
    /\ args \in {<<Joined(p)>> : p \in Strings(ParamPieces, MaxParamPieces)}
    /\ ret = <<>>

\* parseParamOrReturn(str)
CallParseParamOrReturn ==
    /\ fn = "none"
    /\ fn' = "parseParamOrReturn"
    /\ ret' = parseParamOrReturn(args[1])
    /\ UNCHANGED <<args, parserVars, uploadVars>>

\* isCustomType(type)
CallIsCustomType ==
    /\ fn = "none"
    /\ fn' = "isCustomType"
    /\ ret' = isCustomType(args[1])
    /\ UNCHANGED <<args, parserVars, uploadVars>>

NextParameterParser == CallParseParamOrReturn \/ CallIsCustomType

SpecParameterParser == InitParameterParser /\ [][NextParameterParser]_vars

----------------------------------------------------------------------------
(* parseMappingStructure and extractFinalValueType on any type text *)

\* number of pieces a type text handed to the final-value extraction is
\* written from
MaxTypePieces == 5

\* the pieces: the opening of a mapping type, the parentheses, the arrow,
\* white space, anything else
TypePieces == {MAPPING_OPEN, <<"(">>, <<")">>, ARROW, <<" ">>, <<"a">>}

InitFinalValue ==
    /\ NoParse
    /\ NoUpload
    /\ fn = "none"
    /\ args \in {<<Joined(p)>> : p \in Strings(TypePieces, MaxTypePieces)}
    /\ ret = <<>>

SpecFinalValue == InitFinalValue /\ [][NextMappingStructure]_vars

----------------------------------------------------------------------------
(* resolveTypeStr and applyTypeMap *)

\* number of pieces a function definition or type text is written from
MaxDefPieces == 3

\* number of entries of a type map
MaxMapSize == 2

\* two identifiers, which also make the longer identifiers FooBar and BarFoo,
\* the dot of a qualified name, and what ends an identifier
DefPieces == {<<"F","o","o">>, <<"B","a","r">>, <<".">>, <<" ">>, <<"(">>, <<"x">>}

\* the declared names and the types they are declared as
TypeNames == {<<"F","o","o">>, <<"F","o","o","B","a","r">>, <<"B","a","r">>}
RawTypes == {<<"u","i","n","t","8">>, <<"(","F","o","o",",","x",".","B","a","r",")">>, <<"B","a","r","F","o","o","[","]">>}

\* the type maps of at most MaxMapSize entries, no name entered twice
TypeMaps ==
    {m \in UNION {[1..n -> [name : TypeNames, type : RawTypes]] : n \in 0..MaxMapSize} :
        \A i, j \in DOMAIN m : m[i].name = m[j].name => i = j}

InitTypeMap ==
    /\ NoParse
    /\ NoUpload
    /\ fn = "none"
    /\ args \in {<<Joined(p), m>> : p \in Strings(DefPieces, MaxDefPieces), m \in TypeMaps}
    /\ ret = <<>>

\* resolveTypeStr(type, raw, sortedNames, new Set([name])) as buildTypeMap
\* calls it for an entry of raw
CallResolveTypeStr ==
    /\ fn = "none"
    /\ \E i \in DOMAIN args[2] :
          /\ fn' = "resolveTypeStr"
          /\ args' = <<args[2][i].type, args[2], SortedNames(args[2], Len(args[2])),
                       {args[2][i].name}>>
          /\ ret' = resolveTypeStr(args[2][i].type, args[2], SortedNames(args[2], Len(args[2])),
                                   {args[2][i].name}, 1)
    /\ UNCHANGED <<parserVars, uploadVars>>

\* applyTypeMap(funcDef, typeMap)
CallApplyTypeMap ==
    /\ fn = "none"
    /\ fn' = "applyTypeMap"
    /\ ret' = applyTypeMap(args[1], args[2])
    /\ UNCHANGED <<args, parserVars, uploadVars>>

NextTypeMap == CallResolveTypeStr \/ CallApplyTypeMap

SpecTypeMap == InitTypeMap /\ [][NextTypeMap]_vars

----------------------------------------------------------------------------
(* The UploadSelectors component.                                          *)
(*                                                                         *)
(* The text area is blank, holds text with no definition in it ("text"),   *)
(* or holds at most MaxLines definitions: a definition is one that ethers  *)
(* formats to one of Signatures or one that ethers rejects ("bad").        *)
(* A handler runs as one step up to its await and as one step behind it;   *)
(* the requests it awaits are answered in between, in any order and with   *)
(* any answer.                                                             *)
(***************************************************************************)

\* number of definitions in the text area
MaxLines == 2

Signatures == {"a()", "b()"}
Definitions == Signatures \cup {"bad"}
Inputs == {<<>>, <<"text">>} \cup UNION {[1..n -> Definitions] : n \in 1..MaxLines}

\* what the import endpoint says of a signature it was sent
Verdicts == {"imported", "duplicated", "invalid", "unlisted"}

\* parseInput maps a definition to an entry
ParsedFunction(line) ==
    IF line = "bad" THEN [signature |-> "", status |-> "error"]
    ELSE [signature |-> line, status |-> "checking"]

\* parseInput(input): one entry per definition
parseInput(text) == [i \in DOMAIN SelectSeq(text, LAMBDA l : l # "text") |->
                        ParsedFunction(SelectSeq(text, LAMBDA l : l # "text")[i])]

\* parsed.some((f) => f.status === 'checking')
checking == \E i \in DOMAIN parsed : parsed[i].status = "checking"
\* parsed.filter((f) => f.status === 'new').length
newCount == Cardinality({i \in DOMAIN parsed : parsed[i].status = "new"})

\* results.filter((f) => f.status === 'checking' && f.selector), each with the
\* promise of its check
ToCheck(results) ==
    [i \in DOMAIN SelectSeq(results, LAMBDA f : f.status = "checking") |->
        [signature |-> SelectSeq(results, LAMBDA f : f.status = "checking")[i].signature,
         status |-> "pending"]]

\* statusMap.get(signature) ?? 'new': a later entry of checkResults replaces an
\* earlier one of the same signature
StatusMapGet(checkResults, signature) ==
    LET hits == {i \in DOMAIN checkResults : checkResults[i].signature = signature}
    IN IF hits = {} THEN "new"
       ELSE checkResults[CHOOSE i \in hits : \A j \in hits : j <= i].status

\* the updater handleParse hands to setParsed once the checks are settled,
\* without its test of f.status
SetCheckedAll(prev, checkResults) ==
    [i \in DOMAIN prev |->
        [prev[i] EXCEPT !.status = StatusMapGet(checkResults, prev[i].signature)]]

\* the updater handleParse hands to setParsed once the checks are settled
SetChecked(prev, checkResults) ==
    [i \in DOMAIN prev |->
        IF prev[i].status # "checking" THEN prev[i]
        ELSE [prev[i] EXCEPT !.status = StatusMapGet(checkResults, prev[i].signature)]]

\* the updater handleUpload hands to setParsed, verdict being the answer of the
\* endpoint for each signature sent
SetUploaded(prev, sent, verdict) ==
    [i \in DOMAIN prev |->
        IF prev[i].status # "new" \/ prev[i].signature \notin sent THEN prev[i]
        ELSE IF verdict[prev[i].signature] = "imported" THEN [prev[i] EXCEPT !.status = "uploaded"]
        ELSE IF verdict[prev[i].signature] = "duplicated" THEN [prev[i] EXCEPT !.status = "duplicate"]
        ELSE IF verdict[prev[i].signature] = "invalid" THEN [prev[i] EXCEPT !.status = "error"]
        ELSE prev[i]]

InitUploadSelectors == NoParse /\ NoCall /\ NoUpload

\* onChange of the text area
SetInput ==
    /\ \E text \in Inputs : text # input /\ input' = text
    /\ UNCHANGED <<parsed, uploading, parseError, uploadError, uploadDone, checks, signatures>>
    /\ UNCHANGED <<parserVars, callVars>>

\* handleParse up to `await Promise.all(checks)`; the button is disabled while
\* the text area is blank or an entry is being checked.  With nothing to check
\* the await is over before any other event and the updater finds no entry in
\* status checking.
HandleParse ==
    /\ input # <<>>
    /\ ~checking
    /\ uploadError' = "none"
    /\ uploadDone' = FALSE
    /\ parsed' = parseInput(input)
    /\ parseError' = IF parseInput(input) = <<>> THEN "No function definitions found in input."
                     ELSE "none"
    /\ checks' = ToCheck(parseInput(input))
    /\ UNCHANGED <<input, uploading, signatures>>
    /\ UNCHANGED <<parserVars, callVars>>

\* checkSelector(f.selector) of one entry settles: the lookup finds the
\* selector, or does not (or fails)
CheckSettles ==
    /\ \E i \in DOMAIN checks : \E found \in BOOLEAN :
          /\ checks[i].status = "pending"
          /\ checks' = [checks EXCEPT ![i].status = IF found THEN "known" ELSE "new"]
    /\ UNCHANGED <<input, parsed, uploading, parseError, uploadError, uploadDone, signatures>>
    /\ UNCHANGED <<parserVars, callVars>>

\* handleParse behind `await Promise.all(checks)`
ChecksSettled ==
    /\ checks # <<>>
    /\ \A i \in DOMAIN checks : checks[i].status # "pending"
    /\ parsed' = SetChecked(parsed, checks)
    /\ checks' = <<>>
    /\ UNCHANGED <<input, uploading, parseError, uploadError, uploadDone, signatures>>
    /\ UNCHANGED <<parserVars, callVars>>

\* handleUpload up to `await fetch(...)`; the button is rendered when entries
\* are listed, none is being checked and some are new, and is disabled while
\* uploading or after an upload is done
HandleUpload ==
    /\ parsed # <<>>
    /\ ~checking
    /\ newCount > 0
    /\ ~uploading
    /\ ~uploadDone
    /\ uploading' = TRUE
    /\ uploadError' = "none"
    /\ signatures' = [i \in DOMAIN SelectSeq(parsed, LAMBDA f : f.status = "new" /\ f.signature # "") |->
                         SelectSeq(parsed, LAMBDA f : f.status = "new" /\ f.signature # "")[i].signature]
    /\ UNCHANGED <<input, parsed, parseError, uploadDone, checks>>
    /\ UNCHANGED <<parserVars, callVars>>

\* handleUpload behind the await, the request answered with data.ok
UploadSucceeds ==
    /\ uploading
    /\ \E verdict \in [{signatures[i] : i \in DOMAIN signatures} -> Verdicts] :
          parsed' = SetUploaded(parsed, {signatures[i] : i \in DOMAIN signatures}, verdict)
    /\ uploadDone' = TRUE
    /\ uploading' = FALSE
    /\ signatures' = <<>>
    /\ UNCHANGED <<input, parseError, uploadError, checks>>
    /\ UNCHANGED <<parserVars, callVars>>

\* handleUpload behind the await, the request failed or answered without
\* data.ok
UploadFails ==
    /\ uploading
    /\ uploadError' = "Upload failed"
    /\ uploading' = FALSE
    /\ signatures' = <<>>
    /\ UNCHANGED <<input, parsed, parseError, uploadDone, checks>>
    /\ UNCHANGED <<parserVars, callVars>>

NextUploadSelectors ==
    \/ SetInput
    \/ HandleParse
    \/ CheckSettles
    \/ ChecksSettled
    \/ HandleUpload
    \/ UploadSucceeds
    \/ UploadFails

SpecUploadSelectors == InitUploadSelectors /\ [][NextUploadSelectors]_vars

----------------------------------------------------------------------------
(* What the source text declares, read off the library entries. *)

Range(s) == {s[i] : i \in DOMAIN s}

Declared == {Library[decls[i]] : i \in DOMAIN decls}
DeclaredEnums == {d.name : d \in {x \in Declared : x.kind = "enum"}}
DeclaredStructs == {d.name : d \in {x \in Declared : x.kind = "struct"}}

\* the struct, enum and interface names used as types in the library
CustomTypeNames == {<<"S">>, <<"U">>, <<"O">>, <<"R">>, <<"P">>, <<"Q">>, <<"L",".","S">>}

\* the text after the last dot of a type name
Unqualified(t) ==
    LET dots == {i \in 1..Len(t) : t[i] = "."}
    IN IF dots = {} THEN t
       ELSE SubSeq(t, (CHOOSE i \in dots : \A j \in dots : j <= i) + 1, Len(t))

Quoted(t) == <<"\"">> \o t \o <<"\"">>

Finished == pc = "done"

\* a public state variable, or a view/pure function that is not private/internal
Candidate(d) ==
    \/ d.kind = "variable" /\ d.vis = "public"
    \/ d.kind = "function" /\ d.vis \notin {"private", "internal"} /\ d.mut \in {"view", "pure"}

\* the types named in the inputs and outputs of a declaration
TypesOf(d) == Range(d.ins) \cup Range(d.outs)

\* entry e (of functions) has the name and the input types of declaration d
EntryFor(e, d) ==
    /\ e.name = d.name
    /\ Len(e.inputs) = Len(d.ins)
    /\ \A k \in DOMAIN d.ins : e.inputs[k].type = d.ins[k]

\* the entries parseSolidityContract yields for declaration d on its own, with
\* the type tables of the whole source
EntriesOf(d) ==
    LET text == removeComments(d.text)
    IN processStateVariables(findPublicStateVariables(text), context).functions
         \o processViewAndPureFunctions(text, context).functions

\* positions in decls of the public state variables, in the order the scanner
\* meets them: the simple-typed ones, then the mapping-typed ones
RECURSIVE PublicVariables(_, _)
PublicVariables(mapping, i) ==
    IF i > Len(decls) THEN <<>>
    ELSE LET d == Library[decls[i]]
         IN IF d.kind = "variable" /\ d.vis = "public" /\ d.mapping = mapping
              THEN <<i>> \o PublicVariables(mapping, i + 1)
              ELSE PublicVariables(mapping, i + 1)

ScanOrder == PublicVariables(FALSE, 1) \o PublicVariables(TRUE, 1)

\* the first declaration named n in a sequence of positions of decls
FirstNamed(positions, n) ==
    Library[decls[positions[CHOOSE k \in DOMAIN positions :
                               /\ Library[decls[positions[k]]].name = n
                               /\ \A j \in 1..(k - 1) : Library[decls[positions[j]]].name # n]]]

\* positions in decls of the state variables and functions, in source order
RECURSIVE Items(_)
Items(i) ==
    IF i > Len(decls) THEN <<>>
    ELSE IF Library[decls[i]].kind \in {"variable", "function"} THEN <<i>> \o Items(i + 1)
    ELSE Items(i + 1)

\* the number of state-variable getters at the head of result.functions
Getters == Len(stateVarResult.functions)

----------------------------------------------------------------------------
(* The type table the struct and enum declarations stand for. *)

StructNamed(n) == CHOOSE d \in Declared : d.kind = "struct" /\ d.name = n

RECURSIVE ResolvedFields(_, _)
\* the fields of struct n resolved, inProgress being the structs under resolution
ResolvedFields(n, inProgress) ==
    LET fields == StructNamed(n).fields
    IN [i \in DOMAIN fields |->
          LET t == fields[i][1]
              u == Unqualified(t)
          IN IF u \in DeclaredEnums
               THEN [name |-> fields[i][2], type |-> STR_uint8, components |-> <<>>]
             ELSE IF u \in DeclaredStructs /\ u \notin inProgress
               THEN [name |-> fields[i][2], type |-> STR_tuple,
                     components |-> ResolvedFields(u, inProgress \cup {u})]
             ELSE [name |-> fields[i][2], type |-> t, components |-> <<>>]]

ExpectedStructMap == [n \in DeclaredStructs |-> ResolvedFields(n, {n})]

\* a struct that reaches itself through struct-typed fields
RECURSIVE Reaches(_, _, _)
Reaches(n, target, fuel) ==
    /\ fuel > 0
    /\ \E i \in DOMAIN StructNamed(n).fields :
          LET u == Unqualified(StructNamed(n).fields[i][1])
          IN /\ u \in DeclaredStructs
             /\ u \notin DeclaredEnums
             /\ (u = target \/ Reaches(u, target, fuel - 1))

Cyclic == \E n \in DeclaredStructs : Reaches(n, n, Cardinality(DeclaredStructs))

\* parameter p is the ABI rendering of declared type t
Expanded(p, t) ==
    LET u == Unqualified(t)
    IN /\ u \in DeclaredEnums => p.type = STR_uint8
       /\ u \in DeclaredStructs \ DeclaredEnums =>
              /\ p.type = STR_tuple
              /\ u \in DOMAIN context.structMap
              /\ p.components = context.structMap[u]

----------------------------------------------------------------------------
(* The statements checked. *)

\* C1: every candidate item (public state variable, or view/pure function that
\* is not private/internal) with an input or output type that is a custom type
\* found in neither the struct table nor the enum set is absent from functions
\* and originalItems, and some warning names both the item and the missing type.
\* (Stated for the items whose name is declared once, so that deduplication
\* plays no part.)
C1_UnresolvedDropped ==
    Finished =>
      \A d \in Declared : \A t \in TypesOf(d) :
        (/\ Candidate(d)
         /\ \A d2 \in Declared : d2.name = d.name => d2 = d
         /\ t \in CustomTypeNames
         /\ Unqualified(t) \notin DOMAIN context.structMap
         /\ Unqualified(t) \notin context.enumSet)
        => /\ \A i \in DOMAIN result.functions : ~EntryFor(result.functions[i], d)
           /\ \A i \in DOMAIN result.originalItems : ~EntryFor(result.originalItems[i], d)
           /\ \E w \in Range(result.warnings) :
                 Includes(w, Quoted(d.name)) /\ Includes(w, Quoted(t))

\* C2: no function declared private or internal, and no state variable
\* declared private or internal, appears in functions or originalItems.
C2_NoPrivateOrInternal ==
    Finished =>
      \A d \in Declared :
        (d.kind \in {"function", "variable"} /\ d.vis \in {"private", "internal"})
        => /\ \A i \in DOMAIN result.functions : result.functions[i].name # d.name
           /\ \A i \in DOMAIN result.originalItems : result.originalItems[i].name # d.name

\* C3: every entry that comes from the function scan belongs to a function
\* declared view or pure and has stateMutability exactly view or pure; a
\* function declared payable or with no mutability keyword never appears.
C3_OnlyViewOrPure ==
    Finished =>
      /\ \A i \in DOMAIN functionsResult.functions :
            LET e == functionsResult.functions[i]
            IN /\ e.stateMutability \in {KW_view, KW_pure}
               /\ \E d \in Declared :
                     d.kind = "function" /\ d.mut \in {"view", "pure"} /\ d.name = e.name
      /\ \A d \in Declared :
            (d.kind = "function" /\ d.mut \notin {"view", "pure"})
            => \A i \in DOMAIN result.functions : result.functions[i].name # d.name

C5_ParallelLists ==
    Finished =>
      /\ Len(result.functions) = Len(result.originalItems)
      /\ \A i \in DOMAIN result.functions :
            LET f == result.functions[i]
                a == result.originalItems[i]
            IN /\ f.name = a.name
               /\ f.stateMutability = a.stateMutability
               /\ Len(f.inputs) = Len(a.inputs)
               /\ \A k \in DOMAIN f.inputs :
                     f.inputs[k].name = a.inputs[k].name /\ f.inputs[k].type = a.inputs[k].type
               /\ Len(f.outputs) = Len(a.outputs)
               /\ \A k \in DOMAIN f.outputs : f.outputs[k].name = a.outputs[k].name

\* C5 witness: a getter and a function were both emitted, each with an input,
\* the function with a named output
C5_Witness ==
    /\ Finished
    /\ Getters = 1
    /\ Len(result.functions) = 2
    /\ Len(result.functions[1].inputs) > 0
    /\ Len(result.functions[2].inputs) > 0
    /\ Len(result.functions[2].outputs[1].name) > 0

\* C6: parseSolidityContract never throws, and for a source without state
\* variables and functions (the empty string included) the three lists
\* functions, originalItems and warnings are empty.
C6_Total ==
    /\ pc # "thrown"
    /\ (Finished /\ \A d \in Declared : d.kind \in {"enum", "struct"})
       => result = EmptyParseResult

\* C7: struct resolution in parseStructDefinitions ends without throwing for
\* every set of struct declarations, self-referencing and mutually referencing
\* ones included, and such a struct is in the table afterwards, the field under
\* resolution left with its declared type.
C7_StructResolutionTerminates ==
    [][pc = "parseStructDefinitions" =>
         /\ pc' = "removeComments"
         /\ Cyclic => \A n \in DeclaredStructs : n \in DOMAIN context'.structMap]_vars

\* C8: for every set of enum and struct declarations, in whatever order,
\* parseStructDefinitions maps each struct name to its fields in declaration
\* order, each with its declared name and with type uint8 (field type names a
\* declared enum, by unqualified name), tuple with the recursively resolved
\* fields (a declared struct) or the declared type string.
C8_StructTable ==
    [][pc = "parseStructDefinitions" =>
         /\ pc' = "removeComments"
         /\ context'.structMap = ExpectedStructMap
         /\ context'.enumSet = DeclaredEnums]_vars

\* C9: every originalItems entry is fully expanded: an input or output whose
\* declared type names a declared struct is a tuple with that struct's
\* components, one whose declared type names a declared enum is uint8, and no
\* input or output carries a custom type name.
C9_FullyExpanded ==
    Finished =>
      \A i \in DOMAIN result.originalItems :
        LET a == result.originalItems[i]
        IN /\ \A k \in DOMAIN a.inputs : a.inputs[k].type \notin CustomTypeNames
           /\ \A k \in DOMAIN a.outputs : a.outputs[k].type \notin CustomTypeNames
           /\ \A d \in Declared :
                 (Candidate(d) /\ EntryFor(result.functions[i], d))
                 => /\ \A k \in DOMAIN d.ins \cap DOMAIN a.inputs :
                          Expanded(a.inputs[k], d.ins[k])
                    /\ \A k \in DOMAIN d.outs \cap DOMAIN a.outputs :
                          Expanded(a.outputs[k], d.outs[k])

\* C10: an emitted public state variable of mapping type has at least one
\* input, its inputs are the key types outer to inner named key1, key2, ...,
\* it has one output named value whose type is the final value type after
\* enum/struct resolution, and its stateMutability is view.
C10_MappingGetter ==
    Finished =>
      \A d \in Declared : \A i \in DOMAIN result.functions :
        (/\ d.kind = "variable" /\ d.mapping /\ d.vis = "public"
         /\ \A d2 \in Declared : d2.name = d.name => d2 = d
         /\ result.functions[i].name = d.name)
        => LET e == result.functions[i]
               u == Unqualified(d.outs[1])
           IN /\ Len(e.inputs) >= 1
              /\ Len(e.inputs) = Len(d.ins)
              /\ \A k \in DOMAIN d.ins \cap DOMAIN e.inputs :
                    /\ e.inputs[k].name = STR_key \o NumberToString(k)
                    /\ e.inputs[k].type = d.ins[k]
              /\ Len(e.outputs) = 1
              /\ e.outputs[1].name = STR_value
              /\ e.outputs[1].type = (IF u \in DeclaredEnums THEN STR_uint8
                                      ELSE IF u \in DeclaredStructs THEN STR_tuple
                                      ELSE d.outs[1])
              /\ e.stateMutability = KW_view

\* the least position in decls of a declaration named n
FirstPosition(n) ==
    CHOOSE i \in DOMAIN decls :
        /\ Library[decls[i]].name = n
        /\ \A j \in 1..(i - 1) : Library[decls[j]].name # n

\* the least position in ScanOrder of a public state variable named n
ScanPosition(n) ==
    CHOOSE k \in DOMAIN ScanOrder :
        /\ Library[decls[ScanOrder[k]]].name = n
        /\ \A j \in 1..(k - 1) : Library[decls[ScanOrder[j]]].name # n

\* entry e of functions is the getter of a state variable
IsGetter(e) == \E d \in Declared : d.kind = "variable" /\ d.name = e.name

\* entry e of functions is not the getter of a state variable
IsFunction(e) == ~IsGetter(e)

RECURSIVE FunctionEntries(_)
\* the entries that the function declarations at positions i.. of decls yield
\* each on its own, in source order
FunctionEntries(i) ==
    IF i > Len(decls) THEN <<>>
    ELSE IF Library[decls[i]].kind = "function"
      THEN processViewAndPureFunctions(removeComments(Library[decls[i]].text), context).functions
             \o FunctionEntries(i + 1)
    ELSE FunctionEntries(i + 1)

\* in functions the getters come before the function declarations, and the
\* entries of the function declarations are in source order
GettersThenFunctions ==
    /\ \A i, j \in DOMAIN result.functions :
          i < j => ~(IsFunction(result.functions[i]) /\ IsGetter(result.functions[j]))
    /\ SelectSeq(result.functions, IsFunction) = FunctionEntries(1)

----------------------------------------------------------------------------
(* The lexical structure of a source text: comments and string literals. *)

RECURSIVE LexFrom(_, _, _)
\* what each character of s from index i on is, when index i is reached in
\* mode "code", "line" (comment), "block" (comment), "'" or "\"" (literal):
\*   "code"         outside comments and literals
\*   "open"         the opening quote of a string literal
\*   "string"       any other character of a string literal
\*   "block-open"   the slash that opens a block comment
\*   "block-close"  the slash that closes a block comment
\*   "comment"      any other character of a comment
LexFrom(s, i, mode) ==
    IF i >= Len(s) THEN <<>>
    ELSE IF mode = "code"
      THEN IF s[i + 1] \in {"'", "\""} THEN <<"open">> \o LexFrom(s, i + 1, s[i + 1])
           ELSE IF s[i + 1] = "/" /\ CharAt(s, i + 1) = "/"
             THEN <<"comment", "comment">> \o LexFrom(s, i + 2, "line")
           ELSE IF s[i + 1] = "/" /\ CharAt(s, i + 1) = "*"
             THEN <<"block-open", "comment">> \o LexFrom(s, i + 2, "block")
           ELSE <<"code">> \o LexFrom(s, i + 1, "code")
    ELSE IF mode = "line"
      THEN IF s[i + 1] = "\n" THEN <<"code">> \o LexFrom(s, i + 1, "code")
           ELSE <<"comment">> \o LexFrom(s, i + 1, "line")
    ELSE IF mode = "block"
      THEN IF s[i + 1] = "*" /\ CharAt(s, i + 1) = "/"
             THEN <<"comment", "block-close">> \o LexFrom(s, i + 2, "code")
           ELSE <<"comment">> \o LexFrom(s, i + 1, "block")
    ELSE IF s[i + 1] = "\\" /\ i + 1 < Len(s)
      THEN <<"string", "string">> \o LexFrom(s, i + 2, mode)
    ELSE IF s[i + 1] = mode THEN <<"string">> \o LexFrom(s, i + 1, "code")
    ELSE <<"string">> \o LexFrom(s, i + 1, mode)

Lex(s) == LexFrom(s, 0, "code")

\* the characters of s that are outside comments, and the newlines
KeptIn(s, lex) == {k \in 1..Len(s) : lex[k] \in {"code", "open", "string"} \/ s[k] = "\n"}

\* the last character (1-based) of the string literal of s opened at a
LiteralEnd(lex, a) ==
    CHOOSE b \in a..Len(lex) :
        /\ \A k \in (a + 1)..b : lex[k] = "string"
        /\ b = Len(lex) \/ lex[b + 1] # "string"

\* the block comment of s opened at a is never closed
Unterminated(lex, a) ==
    /\ lex[a] = "block-open"
    /\ \A k \in (a + 1)..Len(lex) : lex[k] # "block-close"

\* the call removeComments(source) has returned
Stripped == fn = "removeComments"

\* C13: removeComments is idempotent: applied to its own result it returns
\* that result unchanged.
C13_Idempotent == fn = "removeComments again" => ret = args[1]

\* C13 witness: removeComments was applied to a result of its own from which
\* it had removed a comment: a slash is left in it next to a newline
C13_Witness ==
    /\ fn = "removeComments again"
    /\ \E k \in 1..(Len(args[1]) - 1) :
          args[1][k] = "\n" /\ args[1][k + 1] = "/"

\* C14: the result of removeComments has exactly as many newline characters
\* as the source: newlines in line comments and in block comments, terminated
\* or not, are kept.
C14_NewlinesKept == Stripped => CountChar(ret, "\n") = CountChar(args[1], "\n")

\* C14 witness: a newline inside a terminated block comment was kept while
\* the comment around it was removed
C14_Witness ==
    /\ Stripped
    /\ \E k \in 2..(Len(args[1]) - 1) :
          /\ Lex(args[1])[k] = "comment"
          /\ args[1][k] = "\n"
          /\ Lex(args[1])[Len(args[1])] = "block-close"
    /\ ret = <<"\n">>

\* C15: every string literal that starts outside a comment is copied to the
\* result character for character, comment markers and escaped quotes in it
\* included, at the place behind what is kept of the text before it.
C15_LiteralsCopied ==
    Stripped =>
      \A a \in 1..Len(args[1]) :
        Lex(args[1])[a] = "open" =>
          LET b == LiteralEnd(Lex(args[1]), a)
              before == Cardinality({k \in KeptIn(args[1], Lex(args[1])) : k < a})
          IN /\ Len(ret) >= before + 1 + b - a
             /\ SubSeq(ret, before + 1, before + 1 + b - a) = SubSeq(args[1], a, b)

\* C15 witness: a literal holding an escaped quote and a comment marker was
\* copied
C15_Witness ==
    /\ Stripped
    /\ args[1] = <<"\"", "\\", "\"", "/", "/">>
    /\ ret = args[1]

\* C16: when a block comment is opened outside literals and comments and never
\* closed, nothing that lies after its opening appears in the result but
\* newline characters.
C16_UnterminatedConsumed ==
    Stripped =>
      \A a \in 1..Len(args[1]) :
        Unterminated(Lex(args[1]), a) =>
          LET before == Cardinality({k \in KeptIn(args[1], Lex(args[1])) : k < a})
          IN \A k \in (before + 1)..Len(ret) : ret[k] = "\n"

\* C12: for every well-formed nested mapping type written from keys K1..Kn
\* (n >= 1) and a value type V that is not a mapping type, extractMappingKeys
\* returns <<K1, ..., Kn>>, and the final value type that parseMappingStructure
\* and extractFinalValueType extract is V.
C12_KeysAndFinalValue ==
    \A w \in WellFormedMappings :
      w.text = args[1] =>
        /\ fn = "extractMappingKeys" => ret = w.keys
        /\ fn = "parseMappingStructure" =>
              ret.found /\ ret.keys = w.keys /\ ret.valueType = w.value
        /\ fn = "extractFinalValueType" => ret = Returned(w.value)

\* C12 witness: parseMappingStructure took apart a mapping nested three deep
\* whose value type has parentheses of its own
C12_Witness ==
    /\ fn = "parseMappingStructure"
    /\ \E w \in WellFormedMappings :
          /\ w.text = args[1]
          /\ Len(w.keys) = 3
          /\ w.keys[1] # w.keys[2]
          /\ Includes(w.value, <<"(">>)
          /\ ret.keys = w.keys
          /\ ret.valueType = w.value

----------------------------------------------------------------------------
(* Balanced parentheses. *)

\* opening minus closing parentheses among the characters lo..hi (0-based) of
\* s that are in the set counted of indices
ParenBalance(s, lo, hi, counted) ==
    Cardinality({k \in (lo..hi) \cap counted : s[k + 1] = "("})
      - Cardinality({k \in (lo..hi) \cap counted : s[k + 1] = ")"})

\* the least index behind open at which the balance counted from open is back
\* at 0, -1 if there is none
MatchingParen(s, open, counted) ==
    FirstIndex(open + 1, Len(s) - 1,
               LAMBDA j : j \in counted /\ ParenBalance(s, open, j, counted) = 0)

\* every index of s
AllOf(s) == 0..(Len(s) - 1)

\* C17: if s starts with mapping( and the parenthesis at index 7 has a matching
\* close at index c, extractMappingType returns type = s[0..c] and remainder =
\* the trimmed text behind c; otherwise it returns null.
C17_MappingTypeSplit ==
    fn = "extractMappingType" =>
      LET s == args[1]
          c == MatchingParen(s, 7, AllOf(s))
      IN IF StartsWith(s, MAPPING_OPEN) /\ c # -1
           THEN /\ ret.found
                /\ ret.type = SubSeq(s, 1, c + 1)
                /\ ret.remainder = Trim(SubSeq(s, c + 2, Len(s)))
           ELSE ~ret.found

\* C17 witness: a mapping type was split from a remainder that had white
\* space before it
C17_Witness ==
    /\ fn = "extractMappingType"
    /\ ret.found
    /\ Len(ret.type) > 8
    /\ Len(ret.remainder) > 0
    /\ Len(ret.type) + Len(ret.remainder) < Len(args[1])

RECURSIVE QuotedFrom(_, _, _)
\* the indices from i on that lie in single- or double-quoted regions of s,
\* the quotes included, when index i is reached outside quotes (quote = "") or
\* inside a region opened by quote; a backslash inside a region takes the
\* character behind it with it
QuotedFrom(s, i, quote) ==
    IF i >= Len(s) THEN {}
    ELSE IF quote = ""
      THEN IF s[i + 1] \in {"'", "\""} THEN {i} \cup QuotedFrom(s, i + 1, s[i + 1])
           ELSE QuotedFrom(s, i + 1, "")
    ELSE IF s[i + 1] = "\\" /\ i + 1 < Len(s) THEN {i, i + 1} \cup QuotedFrom(s, i + 2, quote)
    ELSE IF s[i + 1] = quote THEN {i} \cup QuotedFrom(s, i + 1, "")
    ELSE {i} \cup QuotedFrom(s, i + 1, quote)

\* the indices whose parentheses count for the call in args
CountedIndices ==
    IF args[3] THEN AllOf(args[1]) \ QuotedFrom(args[1], args[2], "") ELSE AllOf(args[1])

\* C18: with ( at openIndex, findMatchingClosingParen returns the least index
\* behind openIndex at which the count of ( minus ) from openIndex on is back at
\* 0, -1 if there is none; with ignoreStrings the parentheses in quoted regions
\* (backslash escapes honoured) are not counted, without it quotes have no effect.
C18_MatchingClose ==
    fn = "findMatchingClosingParen" =>
      ret = MatchingParen(args[1], args[2], CountedIndices)

\* C18 witness: with ignoreStrings a closing parenthesis in a quoted region
\* was passed over and the one behind the region was returned
C18_Witness ==
    /\ fn = "findMatchingClosingParen"
    /\ args[3]
    /\ ret # -1
    /\ \E k \in (args[2] + 1)..(ret - 1) :
          args[1][k + 1] = ")" /\ k \in QuotedFrom(args[1], args[2], "")

\* the parenthesis depth at index i of s counted from index start, the
\* parenthesis at i included
DepthAt(s, start, i) == ParenBalance(s, start, i, AllOf(s))

\* the least index from start on at which needle occurs at depth target,
\* -1 if there is none
FirstAtDepth(s, start, needle, target) ==
    FirstIndex(start, Len(s) - 1,
               LAMBDA i : MatchesAt(s, needle, i) /\ DepthAt(s, start, i) = target)

\* C19: findAtDepth returns the least index i >= startIndex at which the
\* needle occurs while the parenthesis depth counted from startIndex equals
\* targetDepth, and -1 when there is none or when the depth is negative
\* somewhere before it.
C19_FirstAtDepth ==
    fn = "findAtDepth" =>
      LET i == FirstAtDepth(args[1], args[2], args[3], args[4])
      IN IF i # -1 /\ \A k \in args[2]..i : DepthAt(args[1], args[2], k) >= 0
           THEN ret = i
           ELSE ret = -1

\* C19 witness: in a mapping nested in a mapping the separator of the outer
\* one was found at depth 1, the one of the inner mapping lying behind it
C19_Witness ==
    /\ fn = "findAtDepth"
    /\ args[2] = 0 /\ args[3] = ARROW /\ args[4] = 1
    /\ ret # -1
    /\ \E k \in (ret + 1)..(Len(args[1]) - 1) :
          MatchesAt(args[1], ARROW, k) /\ DepthAt(args[1], 0, k) = 2

\* the indices of the commas of s at parenthesis depth 0, the depth being the
\* opening minus the closing parentheses before the comma
SeparatingCommas(s) ==
    {k \in AllOf(s) : s[k + 1] = "," /\ ParenBalance(s, 0, k, AllOf(s)) = 0}

RECURSIVE SegmentsFrom(_, _)
\* the trimmed non-empty segments of s from index i on that the separating
\* commas delimit, in order
SegmentsFrom(s, i) ==
    LET j == FirstIndex(i, Len(s) - 1, LAMBDA k : k \in SeparatingCommas(s))
        segment == Trim(SubSeq(s, i + 1, IF j = -1 THEN Len(s) ELSE j))
        kept == IF segment = <<>> THEN <<>> ELSE <<segment>>
    IN IF j = -1 THEN kept ELSE kept \o SegmentsFrom(s, j + 1)

\* C20: splitByComma returns, in order, exactly the trimmed non-empty segments
\* delimited by the commas at parenthesis depth 0: a comma inside parentheses
\* never splits, empty and blank segments are left out.
C20_SplitAtDepthZero ==
    fn = "splitByComma" =>
      /\ ret = SegmentsFrom(args[1], 0)
      /\ \A k \in DOMAIN ret : ret[k] # <<>> /\ Trim(ret[k]) = ret[k]

\* C20 witness: a comma inside parentheses did not split, a comma behind them
\* did, and a blank segment was left out
C20_Witness ==
    /\ fn = "splitByComma"
    /\ args[1] = <<"(", ",", ")", ",", " ", ",">>
    /\ ret = << <<"(", ",", ")">> >>

----------------------------------------------------------------------------
(* parseParamOrReturn and isCustomType, on their own *)

StorageKeywords == {<<"m","e","m","o","r","y">>, <<"s","t","o","r","a","g","e">>, <<"c","a","l","l","d","a","t","a">>}

\* the 0-based indices of s inside a storage-location keyword that stands as
\* a word of its own
KeywordIndices(s) ==
    {i \in 0..(Len(s) - 1) :
        \E w \in StorageKeywords : \E a \in (i - Len(w) + 1)..i :
            MatchesAt(s, w, a) /\ WordBoundary(s, a) /\ WordBoundary(s, a + Len(w))}

RECURSIVE WithoutKeywords(_, _, _)
\* the first n characters of s with the storage-location keywords cut out (gap
\* empty) or blanked (gap a space)
WithoutKeywords(s, n, gap) ==
    IF n = 0 THEN <<>>
    ELSE IF (n - 1) \notin KeywordIndices(s) THEN Append(WithoutKeywords(s, n - 1, gap), s[n])
    ELSE WithoutKeywords(s, n - 1, gap) \o gap

RECURSIVE Squeezed(_, _)
\* the first n characters of s with every run of white space as one space
Squeezed(s, n) ==
    IF n = 0 THEN <<>>
    ELSE IF s[n] \notin Space THEN Append(Squeezed(s, n - 1), s[n])
    ELSE IF n > 1 /\ s[n - 1] \in Space THEN Squeezed(s, n - 1)
    ELSE Append(Squeezed(s, n - 1), " ")

\* what remains of a clause once the storage-location keywords are removed
Remaining(s) ==
    LET blank == WithoutKeywords(s, Len(s), <<" ">>)
    IN Trim(Squeezed(blank, Len(blank)))

\* an identifier that may contain dots and brackets
IsTypeText(t) ==
    /\ Len(t) > 0
    /\ t[1] \in IdentStart
    /\ \A i \in 1..Len(t) : t[i] \in DottedTypeChars

IsWord(t) == Len(t) > 0 /\ \A i \in 1..Len(t) : t[i] \in WordChars

\* the longest run of word characters s starts with
LeadingWord(s) ==
    LET n == CHOOSE k \in 0..Len(s) :
                 /\ \A i \in 1..k : s[i] \in WordChars
                 /\ (k < Len(s) => s[k + 1] \notin WordChars)
    IN SubSeq(s, 1, n)

\* type and name of a clause that starts with the mapping type closed at index
\* close
MappingClause(t, close) ==
    LET rest == SubSeq(t, close + 2, Len(t))
    IN [type |-> SubSeq(t, 1, close + 1),
        name |-> LeadingWord(Trim(WithoutKeywords(rest, Len(rest), <<>>)))]

\* type and name of a clause that does not start with a mapping type
PlainClause(r) ==
    IF IsTypeText(r) THEN [type |-> r, name |-> <<>>]
    ELSE IF \E k \in 1..Len(r) : r[k] = " " /\ IsTypeText(SubSeq(r, 1, k - 1))
                                          /\ IsWord(SubSeq(r, k + 1, Len(r)))
      THEN LET k == CHOOSE j \in 1..Len(r) : r[j] = " " /\ IsTypeText(SubSeq(r, 1, j - 1))
                                                       /\ IsWord(SubSeq(r, j + 1, Len(r)))
           IN [type |-> SubSeq(r, 1, k - 1), name |-> SubSeq(r, k + 1, Len(r))]
    ELSE [type |-> r, name |-> <<>>]

\* type and name of a clause
ClauseParts(t, close) ==
    IF StartsWith(t, MAPPING_OPEN) /\ close >= 0 THEN MappingClause(t, close)
    ELSE PlainClause(Remaining(t))

\* C21: parseParamOrReturn removes the storage-location keywords memory,
\* storage and calldata wherever they stand; of a clause that starts with a
\* mapping type it returns the balanced mapping text as type and the
\* identifier behind it as name; of a clause left as `T` or `T name` it returns
\* T and the name; of any other clause the whole remaining text and no name.
C21_ParseParamOrReturn ==
    fn = "parseParamOrReturn" =>
        ret = ClauseParts(Trim(args[1]), MatchingParen(Trim(args[1]), 7, AllOf(Trim(args[1]))))

\* isCustomType as the words "starts with an uppercase letter" have it
CustomByName(clean) ==
    \/ \E i \in 1..Len(clean) : clean[i] = "."
    \/ /\ Len(clean) > 0
       /\ clean[1] \in Upper
       /\ \A p \in BuiltinPrefixes : ~StartsWith(clean, p)

\* t without a trailing storage-location keyword
WithoutTrailingKeyword(t) ==
    LET e == TrimEndIndex(t, Len(t))
        cut == {a \in 1..e : /\ \E w \in StorageKeywords : SubSeq(t, a + 1, e) = w
                             /\ t[a] \in Space}
    IN IF cut = {} THEN Trim(t)
       ELSE Trim(SubSeq(t, 1, TrimEndIndex(t, CHOOSE a \in cut : TRUE)))

\* C22: isCustomType(t) is true exactly when t without a trailing
\* storage-location keyword contains a dot, or starts with an uppercase letter
\* and with none of the primitive prefixes; it is false for every other string.
C22_IsCustomType ==
    fn = "isCustomType" => ret = CustomByName(WithoutTrailingKeyword(args[1]))

----------------------------------------------------------------------------
(* parseSolidityContract on contract bodies. *)

\* the members the source text is made of
Chosen == {Members[decls[i]] : i \in DOMAIN decls}

\* the names declared as struct, enum or alias outside comments
ChosenTypes(kind) == {d.name : d \in {x \in Chosen : x.kind = kind}}

\* the names that stand for a user-defined type in the members
MemberTypeNames == {<<"U">>, <<"S">>, <<"N">>}

\* the single output { name: 'value', type: 'uint256' }
IsSynthetic(outputs) ==
    /\ Len(outputs) = 1
    /\ outputs[1].name = STR_value
    /\ outputs[1].type = STR_uint256

\* C23: every emitted function declared without a returns clause has the one
\* output { name: value, type: uint256 } in functions and in originalItems, and
\* no function declared with a returns clause has it.
C23_SyntheticOutput ==
    Finished =>
      \A i \in (Getters + 1)..Len(result.functions) :
        \A d \in Chosen :
          (d.kind = "function" /\ d.name = result.functions[i].name)
          => /\ IsSynthetic(result.functions[i].outputs) <=> (d.outs = <<>>)
             /\ IsSynthetic(result.originalItems[i].outputs) <=> (d.outs = <<>>)

\* C24: a struct or enum declared in a comment only is in neither table, and a
\* declaration that refers to it is dropped with a warning naming both.
C24_TableOverStrippedSource ==
    Finished =>
      \A c \in Chosen :
        (c.kind = "comment" /\ c.name \notin ChosenTypes("struct") \cup ChosenTypes("enum"))
        => /\ c.name \notin DOMAIN context.structMap
           /\ c.name \notin context.enumSet
           /\ \A d \in Chosen :
                (Candidate(d) /\ c.name \in TypesOf(d))
                => /\ \A i \in DOMAIN result.functions : result.functions[i].name # d.name
                   /\ \E w \in Range(result.warnings) :
                         Includes(w, Quoted(d.name)) /\ Includes(w, Quoted(c.name))

\* parameters ps carry the declared types ts, P standing in for the alias N
AliasResolved(ps, ts, N, P) ==
    /\ Len(ps) = Len(ts)
    /\ \A k \in DOMAIN ts : ps[k].type = IF ts[k] = N THEN P ELSE ts[k]

\* C26: with `type N is P;` declared, a public mapping with value type N and a
\* view/pure function with a parameter or return of type N are emitted, with
\* P in place of N.
C26_AliasesResolved ==
    Finished =>
      \A n \in Chosen : \A d \in Chosen :
        (n.kind = "alias" /\ Candidate(d) /\ n.name \in TypesOf(d))
        => \E i \in DOMAIN result.originalItems :
              /\ result.originalItems[i].name = d.name
              /\ AliasResolved(result.originalItems[i].inputs, d.ins, n.name, n.outs[1])
              /\ AliasResolved(result.originalItems[i].outputs, d.outs, n.name, n.outs[1])

\* C27: every public state variable of the source whose types are primitive
\* has a declaration of its name in the result, wherever it stands among the
\* functions (no member stands inside a function body).
C27_PublicVariablesFound ==
    Finished =>
      \A d \in Chosen :
        (d.kind = "variable" /\ d.vis = "public" /\ TypesOf(d) \cap MemberTypeNames = {})
        => \E i \in DOMAIN result.functions : result.functions[i].name = d.name

\* C29: a mapping-typed state variable found by findPublicStateVariables has
\* the name and the mapping type of one and the same public declaration, and
\* so has every getter with inputs.
C29_NameAndTypeOfOneStatement ==
    /\ \A k \in DOMAIN stateVarMatches :
          isMappingType(stateVarMatches[k].type)
          => \E d \in Chosen : /\ d.kind = "variable" /\ d.mapping /\ d.vis = "public"
                               /\ d.name = stateVarMatches[k].name
                               /\ StartsWith(d.text, stateVarMatches[k].type)
    /\ Finished =>
         \A i \in 1..Getters :
           result.functions[i].inputs # <<>>
           => \E d \in Chosen : /\ d.kind = "variable" /\ d.mapping /\ d.vis = "public"
                                /\ EntryFor(result.functions[i], d)
                                /\ result.functions[i].outputs[1].type = d.outs[1]

----------------------------------------------------------------------------
(* Final-value extraction on any type text. *)

\* C28: parseMappingStructure and extractFinalValueType come to an end on
\* every type text, whatever stands behind `mapping(`.
C28_FinalValueTerminates ==
    /\ fn = "parseMappingStructure" => ~ret.hangs
    /\ fn = "extractFinalValueType" => ~ret.thrown

----------------------------------------------------------------------------
(* The textual type substitution. *)

\* index p is where an identifier of s starts
IdentifierStart(s, p) == CharAt(s, p) \in WordChars /\ CharAt(s, p - 1) \notin WordChars

RECURSIVE QualifiedEnd(_, _, _)
\* where the qualified name `A.B.n` that starts with the identifier at p ends,
\* -1 if the identifiers from p on lead to no identifier n
QualifiedEnd(s, p, n) ==
    LET e == SkipIn(s, p, WordChars)
        Longer(r) == IF r # -1 THEN r ELSE IF Substring(s, p, e) = n THEN e ELSE -1
    IN IF CharAt(s, e) = "." /\ IdentifierStart(s, e + 1) THEN Longer(QualifiedEnd(s, e + 1, n))
       ELSE Longer(-1)

\* the indices of s at which a qualified or bare identifier n starts
Occurrences(s, n) ==
    {p \in 0..(Len(s) - 1) : IdentifierStart(s, p) /\ QualifiedEnd(s, p, n) # -1}

RECURSIVE Substituted(_, _, _, _)
\* s from index i on, every identifier n (with its qualifying prefix) replaced by r
Substituted(s, n, r, i) ==
    LET later == {p \in Occurrences(s, n) : p >= i}
        p == CHOOSE q \in later : \A q2 \in later : q <= q2
    IN IF later = {} THEN SubSeq(s, i + 1, Len(s))
       ELSE SubSeq(s, i + 1, p) \o r \o Substituted(s, n, r, QualifiedEnd(s, p, n))

\* the names of a map, longest first, names of one length in the order of entry
LongestFirst(map) ==
    LET before(i, j) == \/ Len(map[i].name) > Len(map[j].name)
                        \/ Len(map[i].name) = Len(map[j].name) /\ i < j
        rank(i) == 1 + Cardinality({j \in DOMAIN map : before(j, i)})
    IN [k \in DOMAIN map |-> map[CHOOSE i \in DOMAIN map : rank(i) = k].name]

RECURSIVE SubstituteAll(_, _, _, _)
\* the names order[k..] substituted in s, one after the other
SubstituteAll(s, map, order, k) ==
    IF k > Len(order) THEN s
    ELSE SubstituteAll(Substituted(s, order[k], MapGet(map, order[k]), 0), map, order, k + 1)

RECURSIVE Resolved(_, _, _, _, _)
\* type with the names order[k..] outside visiting replaced by their resolved types
Resolved(type, raw, order, visiting, k) ==
    IF k > Len(order) THEN type
    ELSE IF order[k] \in visiting \/ Occurrences(type, order[k]) = {}
      THEN Resolved(type, raw, order, visiting, k + 1)
    ELSE Resolved(Substituted(type, order[k],
                              Resolved(MapGet(raw, order[k]), raw, order,
                                       visiting \cup {order[k]}, 1), 0),
                  raw, order, visiting, k + 1)

\* C25: resolveTypeStr and applyTypeMap replace a known name only where it
\* stands as a complete identifier, with its qualifying prefix `A.B.` if it has
\* one, never inside a longer identifier, and take the names longest first.
C25_WholeIdentifiers ==
    /\ fn = "applyTypeMap" => ret = SubstituteAll(args[1], args[2], LongestFirst(args[2]), 1)
    /\ fn = "resolveTypeStr" => ret = Resolved(args[1], args[2], LongestFirst(args[2]), args[4], 1)

----------------------------------------------------------------------------
(* UploadSelectors: how the status of an entry moves. *)

\* the step puts a freshly parsed list in place of the entries: every entry is
\* being checked or was rejected by the parser, and nothing is uploaded yet
ListReplaced ==
    /\ ~uploadDone'
    /\ \A i \in DOMAIN parsed' :
          \/ parsed'[i].status = "checking" /\ parsed'[i].signature # ""
          \/ parsed'[i].status = "error" /\ parsed'[i].signature = ""
    /\ Len(checks') = Cardinality({i \in DOMAIN parsed' : parsed'[i].status = "checking"})
    /\ \A k \in DOMAIN checks' : checks'[k].status = "pending"

\* the step is the one in which the checks of handleParse, all answered, are
\* taken into the list
ChecksTakenIn ==
    /\ checks # <<>>
    /\ \A k \in DOMAIN checks : checks[k].status # "pending"
    /\ checks' = <<>>

\* the step is the one in which an upload is answered with success
UploadAnswered == uploading /\ ~uploading' /\ uploadDone'

\* the entries stay the entries they are, and the status of each stays or
\* moves one of the ways allowed
StatusMoved ==
    /\ Len(parsed') = Len(parsed)
    /\ \A i \in DOMAIN parsed :
          /\ parsed'[i].signature = parsed[i].signature
          /\ \/ parsed'[i].status = parsed[i].status
             \/ /\ parsed[i].status = "checking"
                /\ parsed'[i].status \in {"new", "known"}
                /\ ChecksTakenIn
             \/ /\ parsed[i].status = "new"
                /\ parsed'[i].status \in {"uploaded", "duplicate", "error"}
                /\ UploadAnswered

\* a request that starts carries signatures of entries in status new only
OnlyNewSent ==
    (~uploading /\ uploading')
    => /\ signatures' # <<>>
       /\ \A k \in DOMAIN signatures' :
             \E i \in DOMAIN parsed : parsed[i].status = "new" /\ parsed[i].signature = signatures'[k]

\* with no check of handleParse outstanding no entry is in status checking
NoneLeftChecking == checks' = <<>> => \A i \in DOMAIN parsed' : parsed'[i].status # "checking"

\* C30: in every step of UploadSelectors the list is replaced by a fresh parse
\* or each entry keeps its status or moves checking -> new | known as the
\* checks of handleParse are taken in, or new -> uploaded | duplicate | error
\* as an upload succeeds; a request carries signatures of new entries only;
\* and behind the checks no entry is left in status checking.
C30_StatusMoves ==
    [][(ListReplaced \/ StatusMoved) /\ OnlyNewSent /\ NoneLeftChecking]_vars

\* an upload was answered while the entries of a later parse were being
\* checked, and the list now has an uploaded and a known entry
C30_Witness ==
    /\ uploadDone
    /\ checks = <<>>
    /\ \E i, j \in DOMAIN parsed : parsed[i].status = "uploaded" /\ parsed[j].status = "known"


=============================================================================
